---- MODULE Spec2Model ----
(***************************************************************************)
(* The demonstration scripts of the repository, each a straight-line       *)
(* program: it resolves its parameters (stack label, configuration store,  *)
(* environment variables), declares resources one statement at a time and  *)
(* exports a map of values.  A behaviour is a run of one script on inputs   *)
(* chosen in Init, optionally followed by one more run of the same script  *)
(* after the operator changed one setting (pulumi config set ...; pulumi   *)
(* up); prev keeps what the first run produced.                             *)
(*                                                                         *)
(* Strings the code parses (int(), float(), split(",")) are sequences of   *)
(* characters or tokens, so that parsing is computed and can fail.  A name *)
(* built by an f-string is the sequence of its pieces.                     *)
(***************************************************************************)
EXTENDS Integers, Sequences, FiniteSets, TLC

VARIABLES script, pc, stack_name, cfg, osenv, azs, sdk, prev,
          locals, resources, exports, error

vars == <<script, pc, stack_name, cfg, osenv, azs, sdk, prev,
          locals, resources, exports, error>>

\* what a run reads and never writes
inputs == <<script, stack_name, cfg, osenv, azs, sdk, prev>>

-----------------------------------------------------------------------------
(* Bounds of the input space *)

MaxIntLen == 2

MaxVerLen == 3

MaxAZ == 3

MaxCount == 3

MaxSubnetIds == 3

-----------------------------------------------------------------------------
(* Generic helpers *)

\* A bootstrap payload (user_data) is [deferred, attrs, subst]: subst holds
\* the resolved parameters substituted into the text, attrs the resource
\* attributes (deferred values) formatted into it, and deferred tells whether
\* the text is built inside a transform (Output.apply) or by the program as
\* it runs.

EmptyMap == [x \in {} |-> x]

Opt(k, S) == {EmptyMap} \cup {k :> v : v \in S}

Bind(l, k, v) == (k :> v) @@ l

Has(m, k) == k \in DOMAIN m

IsPrefix(s, t) == Len(s) <= Len(t) /\ SubSeq(t, 1, Len(s)) = s

Strings(chars, n) == UNION {[1..k -> chars] : k \in 1..n}

DigitSeq == <<"0", "1", "2", "3", "4", "5", "6", "7", "8", "9">>

Digits == {DigitSeq[i] : i \in 1..Len(DigitSeq)}

DigitVal(c) == (CHOOSE i \in 1..Len(DigitSeq) : DigitSeq[i] = c) - 1

RECURSIVE DigitsVal(_)
DigitsVal(s) == IF Len(s) = 0 THEN 0
                ELSE 10 * DigitsVal(SubSeq(s, 1, Len(s) - 1)) + DigitVal(s[Len(s)])

\* str(n) of a natural number, and of a boolean
RECURSIVE Str(_)
Str(n) == IF n < 10 THEN <<DigitSeq[n + 1]>>
          ELSE Str(n \div 10) \o <<DigitSeq[(n % 10) + 1]>>

StrBool(b) == IF b THEN "True" ELSE "False"

RECURSIVE Pow10(_)
Pow10(n) == IF n = 0 THEN 1 ELSE 10 * Pow10(n - 1)

NoError == [kind |-> "none"]

\* the installed pulumi package: whether pulumi.runtime has an attribute
\* get_time.  Only demo_components.py and pulumi-presentation/__main__.py
\* (and a part of advanced_demo.py that no run reaches) call it.
\* webserver/__main__.py passes tags= to RouteTableAssociation, which
\* declares no such input: extra_kwargs tells whether the installed
\* pulumi_aws constructors accept a keyword they do not declare.
Sdks ==
    IF script \in {"demo_components", "presentation"}
    THEN {[get_time |-> TRUE], [get_time |-> FALSE]}
    ELSE IF script = "webserver"
    THEN {[get_time |-> FALSE, extra_kwargs |-> TRUE],
          [get_time |-> FALSE, extra_kwargs |-> FALSE]}
    ELSE {[get_time |-> FALSE]}

\* the zone names aws.get_availability_zones() returns
AzLists == {[k \in 1..n |-> <<"az", k>>] : n \in 1..MaxAZ}

-----------------------------------------------------------------------------
(* The configuration store and the environment, as the scripts read them *)

\* int(v): v is a non-empty run of decimal digits (the alphabet has no sign,
\* blank or underscore)
IsIntText(s) == Len(s) >= 1 /\ \A i \in 1..Len(s) : s[i] \in Digits

\* float(v): digits with at most one ".", at least one digit
DotsOf(s) == {i \in 1..Len(s) : s[i] = "."}

IsFloatText(s) ==
    /\ \A i \in 1..Len(s) : s[i] \in Digits \cup {"."}
    /\ Cardinality(DotsOf(s)) <= 1
    /\ \E i \in 1..Len(s) : s[i] \in Digits

\* the value of float(s) as a fraction <<numerator, denominator>>
FloatOf(s) ==
    IF DotsOf(s) = {} THEN <<DigitsVal(s), 1>>
    ELSE LET d == CHOOSE i \in DotsOf(s) : TRUE
             whole == SubSeq(s, 1, d - 1)
             frac == SubSeq(s, d + 1, Len(s))
         IN <<DigitsVal(whole) * Pow10(Len(frac)) + DigitsVal(frac), Pow10(Len(frac))>>

\* float(s) >= n for an integer n
FloatGE(s, n) == FloatOf(s)[1] >= n * FloatOf(s)[2]

\* Config.get(key, default)
ConfigGet(c, key, default) == IF Has(c, key) THEN c[key] ELSE default

\* Config.get_int(key, default): [ok, val]; not ok is ConfigTypeError
ConfigGetInt(c, key, default) ==
    IF ~Has(c, key) THEN [ok |-> TRUE, val |-> default]
    ELSE IF IsIntText(c[key]) THEN [ok |-> TRUE, val |-> DigitsVal(c[key])]
    ELSE [ok |-> FALSE, val |-> c[key]]

\* Config.get_bool(key, default): [ok, val]; not ok is ConfigTypeError
ConfigGetBool(c, key, default) ==
    IF ~Has(c, key) THEN [ok |-> TRUE, val |-> default]
    ELSE IF c[key] \in {"true", "True"} THEN [ok |-> TRUE, val |-> TRUE]
    ELSE IF c[key] \in {"false", "False"} THEN [ok |-> TRUE, val |-> FALSE]
    ELSE [ok |-> FALSE, val |-> c[key]]

\* os.environ.get(key, default)
EnvironGet(e, key, default) == IF Has(e, key) THEN e[key] ELSE default

\* a deferred attribute of a declared resource, and a transform applied to one
Attr(name, attr) == [deferred |-> TRUE, of |-> name, attr |-> attr]

ApplyNow(out, f) == [deferred |-> FALSE, of |-> out, transform |-> f]

Apply(out, f) == [deferred |-> TRUE, of |-> out, transform |-> f]

DeclareFirst(rs, r) == <<r>> \o rs

\* a resource constructor call registers the resource after those already
\* registered
Declare(rs, r) == Append(rs, r)

Declared(type) == {i \in 1..Len(resources) : resources[i].type = type}

Fail(e) ==
    /\ error' = e
    /\ pc' = "aborted"

Goto(l) ==
    /\ pc' = l
    /\ error' = error

-----------------------------------------------------------------------------
(* demo/03_configuration_demo.py *)

IntChars == {"0", "1", "2", "x"}

MinInstances == 1

MaxInstances == 10

valid_environments == <<"development", "staging", "production", "demo">>

DefaultAllowedCidrs == <<"10.0.0.0/8", ",", "172.16.0.0/12">>

\* str.split(","): the pieces between the "," tokens
RECURSIVE SplitComma(_)
SplitComma(s) ==
    IF \A i \in 1..Len(s) : s[i] # "," THEN <<s>>
    ELSE LET k == CHOOSE i \in 1..Len(s) :
                      s[i] = "," /\ \A j \in 1..(i - 1) : s[j] # ","
         IN <<SubSeq(s, 1, k - 1)>> \o SplitComma(SubSeq(s, k + 1, Len(s)))

\* str.strip(): blanks removed at both ends
RECURSIVE Strip(_)
Strip(s) ==
    IF Len(s) = 0 THEN s
    ELSE IF s[1] = " " THEN Strip(Tail(s))
    ELSE IF s[Len(s)] = " " THEN Strip(SubSeq(s, 1, Len(s) - 1))
    ELSE s

\* [cidr.strip() for cidr in allowed_cidrs.split(",")]
CidrList(allowed_cidrs) ==
    LET parts == SplitComma(allowed_cidrs)
    IN [i \in 1..Len(parts) |-> Strip(parts[i])]

Stores03 ==
    {a @@ b @@ c @@ d @@ e @@ f :
        a \in Opt("app_name", {"MyDemoApp"}),
        b \in Opt("instance_count", Strings(IntChars, MaxIntLen)),
        c \in Opt("enable_https", {"true", "false"}),
        d \in Opt("allowed_cidrs", {<<"192.168.0.0/16", ",", " ", "10.1.0.0/16">>}),
        e \in Opt("db_password", {"pw1", "pw2"}),
        f \in Opt("api_key", {"k1", "k2"})}

Envs03 ==
    Opt("ENVIRONMENT", {"production", "demo", "qa"})

Init03 ==
    /\ script = "config03"
    /\ pc = "c03_app_name"
    /\ stack_name = "dev"
    /\ cfg \in Stores03
    /\ osenv \in Envs03
    /\ azs = <<<<"az", 1>>>>

Name03(l, role) == <<l.app_name, "-", l.environment, "-", role>>

\* lines 41-47: config.require("app_name") inside try/except; the handler
\* prints the ConfigMissingError and binds a default
RequireAppName(c) == IF Has(c, "app_name") THEN c["app_name"] ELSE "DefaultApp"

ReadAppName03 ==
    /\ script = "config03" /\ pc = "c03_app_name"
    /\ locals' = Bind(locals, "app_name", RequireAppName(cfg))
    /\ Goto("c03_optional")
    /\ UNCHANGED <<inputs, resources, exports>>

\* lines 49-59: optional configuration with defaults
ReadOptional03 ==
    /\ script = "config03" /\ pc = "c03_optional"
    /\ LET ic == ConfigGetInt(cfg, "instance_count", 1)
           https == ConfigGetBool(cfg, "enable_https", FALSE)
           allowed_cidrs == ConfigGet(cfg, "allowed_cidrs", DefaultAllowedCidrs)
       IN IF ~ic.ok
          THEN /\ Fail([kind |-> "ConfigTypeError", key |-> "instance_count"])
               /\ UNCHANGED locals
          ELSE IF ~https.ok
          THEN /\ Fail([kind |-> "ConfigTypeError", key |-> "enable_https"])
               /\ locals' = Bind(locals, "instance_count", ic.val)
          ELSE /\ locals' = Bind(Bind(Bind(locals, "instance_count", ic.val),
                                      "enable_https", https.val),
                                 "cidr_list", CidrList(allowed_cidrs))
               /\ Goto("c03_secrets")
    /\ UNCHANGED <<inputs, resources, exports>>

\* lines 66-76: config.require_secret("db_password") inside try/except, and
\* config.get_secret("api_key", "default-api-key")
RequireSecret(c) ==
    IF Has(c, "db_password") THEN [secret |-> TRUE, val |-> c["db_password"]]
    ELSE [secret |-> FALSE, val |-> "default-insecure-password"]

ReadSecrets03 ==
    /\ script = "config03" /\ pc = "c03_secrets"
    /\ locals' = Bind(Bind(locals, "db_password", RequireSecret(cfg)),
                      "api_key", [secret |-> TRUE,
                                  val |-> ConfigGet(cfg, "api_key", "default-api-key")])
    /\ Goto("c03_environ")
    /\ UNCHANGED <<inputs, resources, exports>>

\* lines 83-91: environment variables
ReadEnviron03 ==
    /\ script = "config03" /\ pc = "c03_environ"
    /\ locals' = Bind(Bind(Bind(locals,
                      "environment", EnvironGet(osenv, "ENVIRONMENT", "development")),
                      "aws_region", EnvironGet(osenv, "AWS_REGION", "us-east-1")),
                      "deployment_mode", EnvironGet(osenv, "DEPLOYMENT_MODE", "standard"))
    /\ Goto("c03_validate")
    /\ UNCHANGED <<inputs, resources, exports>>

\* lines 98-107: validation of instance_count and environment
InstanceCountBadNoUpper(n) == n < MinInstances

InstanceCountBad(n) == n < MinInstances \/ n > MaxInstances

EnvironmentBadSkipped(e) == FALSE

EnvironmentBad(e) == \A i \in 1..Len(valid_environments) : valid_environments[i] # e

Validate03 ==
    /\ script = "config03" /\ pc = "c03_validate"
    /\ IF InstanceCountBad(locals.instance_count)
       THEN Fail([kind |-> "ValueError", about |-> "instance_count",
                  got |-> locals.instance_count,
                  allowed |-> <<MinInstances, MaxInstances>>])
       ELSE IF EnvironmentBad(locals.environment)
       THEN Fail([kind |-> "ValueError", about |-> "environment",
                  got |-> locals.environment, allowed |-> valid_environments])
       ELSE Goto("c03_vpc")
    /\ UNCHANGED <<inputs, locals, resources, exports>>

\* lines 121-174: the network, one declaration per statement
Vpc03(l) ==
    [type |-> "Vpc", name |-> Name03(l, "vpc"), refs |-> EmptyMap,
     cidr_block |-> "10.0.0.0/16",
     tags |-> [Name |-> Name03(l, "vpc"), Application |-> l.app_name,
               Environment |-> l.environment, ManagedBy |-> "Pulumi-Config-Demo"]]

Igw03(l) ==
    [type |-> "InternetGateway", name |-> Name03(l, "igw"),
     refs |-> [vpc_id |-> Name03(l, "vpc")],
     tags |-> [Name |-> Name03(l, "igw"), Application |-> l.app_name,
               Environment |-> l.environment]]

Subnet03(l, zones) ==
    [type |-> "Subnet", name |-> Name03(l, "subnet"),
     refs |-> [vpc_id |-> Name03(l, "vpc")],
     cidr_block |-> "10.0.1.0/24", availability_zone |-> zones[1],
     tags |-> [Name |-> Name03(l, "subnet"), Application |-> l.app_name,
               Environment |-> l.environment]]

RouteTable03(l) ==
    [type |-> "RouteTable", name |-> Name03(l, "rt"),
     refs |-> [vpc_id |-> Name03(l, "vpc"), gateway_id |-> Name03(l, "igw")],
     tags |-> [Name |-> Name03(l, "rt"), Application |-> l.app_name,
               Environment |-> l.environment]]

RouteTableAssociation03(l) ==
    [type |-> "RouteTableAssociation", name |-> Name03(l, "rt-assoc"),
     refs |-> [subnet_id |-> Name03(l, "subnet"), route_table_id |-> Name03(l, "rt")],
     tags |-> EmptyMap]

DeclareVpc03 ==
    /\ script = "config03" /\ pc = "c03_vpc"
    /\ resources' = Declare(resources, Vpc03(locals))
    /\ Goto("c03_igw")
    /\ UNCHANGED <<inputs, locals, exports>>

DeclareIgw03 ==
    /\ script = "config03" /\ pc = "c03_igw"
    /\ resources' = Declare(resources, Igw03(locals))
    /\ Goto("c03_subnet")
    /\ UNCHANGED <<inputs, locals, exports>>

DeclareSubnet03 ==
    /\ script = "config03" /\ pc = "c03_subnet"
    /\ resources' = Declare(resources, Subnet03(locals, azs))
    /\ Goto("c03_rt")
    /\ UNCHANGED <<inputs, locals, exports>>

DeclareRouteTable03 ==
    /\ script = "config03" /\ pc = "c03_rt"
    /\ resources' = Declare(Declare(resources, RouteTable03(locals)),
                            RouteTableAssociation03(locals))
    /\ Goto("c03_sg_ingress")
    /\ UNCHANGED <<inputs, locals, exports>>

\* lines 176-192: the ingress rule list
SshRule03(cidr_list) ==
    [from_port |-> 22, to_port |-> 22, protocol |-> "tcp",
     cidr_blocks |-> cidr_list, description |-> "SSH"]

HttpRule03 ==
    [from_port |-> 80, to_port |-> 80, protocol |-> "tcp",
     cidr_blocks |-> <<"0.0.0.0/0">>, description |-> "HTTP"]

HttpsRule03 ==
    [from_port |-> 443, to_port |-> 443, protocol |-> "tcp",
     cidr_blocks |-> <<"0.0.0.0/0">>, description |-> "HTTPS"]

InitIngress03 ==
    /\ script = "config03" /\ pc = "c03_sg_ingress"
    /\ locals' = Bind(locals, "sg_ingress", <<SshRule03(locals.cidr_list)>>)
    /\ Goto("c03_http")
    /\ UNCHANGED <<inputs, resources, exports>>

AppendHttp03 ==
    /\ script = "config03" /\ pc = "c03_http"
    /\ locals' = Bind(locals, "sg_ingress", Append(locals.sg_ingress, HttpRule03))
    /\ Goto("c03_https")
    /\ UNCHANGED <<inputs, resources, exports>>

HttpsStep03(sg_ingress, enable_https) ==
    IF enable_https THEN Append(sg_ingress, HttpsRule03) ELSE sg_ingress

AppendHttps03 ==
    /\ script = "config03" /\ pc = "c03_https"
    /\ locals' = Bind(locals, "sg_ingress",
                      HttpsStep03(locals.sg_ingress, locals.enable_https))
    /\ Goto("c03_sg")
    /\ UNCHANGED <<inputs, resources, exports>>

\* lines 194-206
SecurityGroup03(l) ==
    [type |-> "SecurityGroup", name |-> Name03(l, "sg"),
     refs |-> [vpc_id |-> Name03(l, "vpc")], ingress |-> l.sg_ingress,
     tags |-> [Name |-> Name03(l, "sg"), Application |-> l.app_name,
               Environment |-> l.environment]]

DeclareSecurityGroup03 ==
    /\ script = "config03" /\ pc = "c03_sg"
    /\ resources' = Declare(resources, SecurityGroup03(locals))
    /\ locals' = Bind(Bind(locals, "instances", <<>>), "i", 0)
    /\ Goto("c03_loop")
    /\ UNCHANGED <<inputs, exports>>

\* lines 213-316: one instance per iteration of range(instance_count)
InstanceName03(l, i) == <<l.app_name, "-", l.environment, "-", "instance-", i + 1>>

UserData03(l, i) ==
    [deferred |-> TRUE, of |-> <<l.db_password, l.api_key>>, attrs |-> <<>>,
     subst |-> [app_name |-> l.app_name, environment |-> l.environment,
                instance_count |-> l.instance_count, enable_https |-> l.enable_https,
                cidr_list |-> l.cidr_list, aws_region |-> l.aws_region,
                deployment_mode |-> l.deployment_mode, number |-> i + 1]]

Instance03(l, i) ==
    [type |-> "Instance", name |-> InstanceName03(l, i),
     refs |-> [subnet_id |-> Name03(l, "subnet"),
               vpc_security_group_ids |-> <<Name03(l, "sg")>>],
     instance_type |-> "t2.micro", user_data |-> UserData03(l, i),
     tags |-> [Name |-> InstanceName03(l, i), Application |-> l.app_name,
               Environment |-> l.environment, InstanceNumber |-> Str(i + 1),
               ConfigDemo |-> "true"]]

LoopContinues03OffByOne(i, instance_count) == i <= instance_count

LoopContinues03(i, instance_count) == i < instance_count

DeclareInstance03 ==
    /\ script = "config03" /\ pc = "c03_loop"
    /\ LoopContinues03(locals.i, locals.instance_count)
    /\ resources' = Declare(resources, Instance03(locals, locals.i))
    /\ locals' = Bind(Bind(locals, "instances",
                           Append(locals.instances, InstanceName03(locals, locals.i))),
                      "i", locals.i + 1)
    /\ Goto("c03_loop")
    /\ UNCHANGED <<inputs, exports>>

\* lines 323-358: the export map
SecretsConfigured03Leak(db_password, api_key) ==
    [db_password_configured |-> TRUE, api_key_configured |-> TRUE,
     note |-> db_password.val]

SecretsConfigured03(db_password, api_key) ==
    [db_password_configured |-> TRUE, api_key_configured |-> TRUE,
     note |-> "Secret values are encrypted and not shown in outputs"]

ExportMap03(l) ==
    [demo_type |-> "Configuration Demo",
     configuration_used |->
        [app_name |-> l.app_name, environment |-> l.environment,
         instance_count |-> l.instance_count, enable_https |-> l.enable_https,
         allowed_cidrs |-> l.cidr_list, aws_region |-> l.aws_region,
         deployment_mode |-> l.deployment_mode],
     secrets_configured |-> SecretsConfigured03(l.db_password, l.api_key),
     instances |->
        [count |-> Len(l.instances),
         instance_ids |-> [k \in 1..Len(l.instances) |-> Attr(l.instances[k], "id")],
         public_ips |-> [k \in 1..Len(l.instances) |-> Attr(l.instances[k], "public_ip")],
         urls |-> [k \in 1..Len(l.instances) |->
                      Apply(Attr(l.instances[k], "public_ip"), "http-url")]],
     demo_commands |-> "fixed-text"]

Export03 ==
    /\ script = "config03" /\ pc = "c03_loop"
    /\ ~LoopContinues03(locals.i, locals.instance_count)
    /\ exports' = ExportMap03(locals)
    /\ Goto("done")
    /\ UNCHANGED <<inputs, locals, resources>>

Next03 ==
    \/ ReadAppName03 \/ ReadOptional03 \/ ReadSecrets03 \/ ReadEnviron03
    \/ Validate03
    \/ DeclareVpc03 \/ DeclareIgw03 \/ DeclareSubnet03 \/ DeclareRouteTable03
    \/ InitIngress03 \/ AppendHttp03 \/ AppendHttps03 \/ DeclareSecurityGroup03
    \/ DeclareInstance03 \/ Export03

-----------------------------------------------------------------------------
(* demo/05_preview_update_demo.py *)

VerChars == {"0", "1", "2", "3", ".", "x"}

DefaultVersion == <<"1", ".", "0">>

Stores05 ==
    {a @@ b :
        a \in Opt("deployment_version", Strings(VerChars, MaxVerLen)),
        b \in Opt("enable_monitoring", {"true", "false"})}

Init05 ==
    /\ script = "preview05"
    /\ pc = "p05_config"
    /\ stack_name = "dev"
    /\ cfg \in Stores05
    /\ osenv = EmptyMap
    /\ azs = <<<<"az", 1>>>>

\* lines 33-35
ReadConfig05 ==
    /\ script = "preview05" /\ pc = "p05_config"
    /\ LET mon == ConfigGetBool(cfg, "enable_monitoring", FALSE)
       IN IF ~mon.ok
          THEN /\ Fail([kind |-> "ConfigTypeError", key |-> "enable_monitoring"])
               /\ locals' = Bind(locals, "deployment_version",
                                 ConfigGet(cfg, "deployment_version", DefaultVersion))
          ELSE /\ locals' = Bind(Bind(locals, "deployment_version",
                                      ConfigGet(cfg, "deployment_version", DefaultVersion)),
                                 "enable_monitoring", mon.val)
               /\ Goto("p05_vpc")
    /\ UNCHANGED <<inputs, resources, exports>>

Tags05(name, l) ==
    [Name |-> name, Purpose |-> "PreviewUpdateDemo", Version |-> l.deployment_version]

\* lines 52-107
Vpc05(l) ==
    [type |-> "Vpc", name |-> "preview-update-vpc", refs |-> EmptyMap,
     cidr_block |-> "10.200.0.0/16",
     tags |-> [Name |-> "preview-update-vpc", Purpose |-> "PreviewUpdateDemo",
               Version |-> l.deployment_version, LastUpdate |-> "TBD"]]

Igw05(l) ==
    [type |-> "InternetGateway", name |-> "preview-update-igw",
     refs |-> [vpc_id |-> "preview-update-vpc"],
     tags |-> Tags05("preview-update-igw", l)]

Subnet05(l, zones) ==
    [type |-> "Subnet", name |-> "preview-update-subnet",
     refs |-> [vpc_id |-> "preview-update-vpc"],
     cidr_block |-> "10.200.1.0/24", availability_zone |-> zones[1],
     tags |-> Tags05("preview-update-subnet", l)]

RouteTable05(l) ==
    [type |-> "RouteTable", name |-> "preview-update-rt",
     refs |-> [vpc_id |-> "preview-update-vpc", gateway_id |-> "preview-update-igw"],
     tags |-> Tags05("preview-update-rt", l)]

RouteTableAssociation05 ==
    [type |-> "RouteTableAssociation", name |-> "preview-update-rt-assoc",
     refs |-> [subnet_id |-> "preview-update-subnet",
               route_table_id |-> "preview-update-rt"],
     tags |-> EmptyMap]

DeclareVpc05 ==
    /\ script = "preview05" /\ pc = "p05_vpc"
    /\ resources' = Declare(resources, Vpc05(locals))
    /\ Goto("p05_igw")
    /\ UNCHANGED <<inputs, locals, exports>>

DeclareIgw05 ==
    /\ script = "preview05" /\ pc = "p05_igw"
    /\ resources' = Declare(resources, Igw05(locals))
    /\ Goto("p05_subnet")
    /\ UNCHANGED <<inputs, locals, exports>>

DeclareSubnet05 ==
    /\ script = "preview05" /\ pc = "p05_subnet"
    /\ resources' = Declare(resources, Subnet05(locals, azs))
    /\ Goto("p05_rt")
    /\ UNCHANGED <<inputs, locals, exports>>

DeclareRouteTable05 ==
    /\ script = "preview05" /\ pc = "p05_rt"
    /\ resources' = Declare(Declare(resources, RouteTable05(locals)),
                            RouteTableAssociation05)
    /\ Goto("p05_base_ingress")
    /\ UNCHANGED <<inputs, locals, exports>>

\* lines 114-145: the ingress rule list
HttpRule05 ==
    [description |-> "HTTP Access", from_port |-> 80, to_port |-> 80,
     protocol |-> "tcp", cidr_blocks |-> <<"0.0.0.0/0">>]

SshRule05 ==
    [description |-> "SSH Access - Added in v2.0", from_port |-> 22, to_port |-> 22,
     protocol |-> "tcp", cidr_blocks |-> <<"0.0.0.0/0">>]

HttpsRule05 ==
    [description |-> "HTTPS Access - Added in v3.0", from_port |-> 443, to_port |-> 443,
     protocol |-> "tcp", cidr_blocks |-> <<"0.0.0.0/0">>]

InitIngress05 ==
    /\ script = "preview05" /\ pc = "p05_base_ingress"
    /\ locals' = Bind(locals, "base_ingress", <<HttpRule05>>)
    /\ Goto("p05_ssh")
    /\ UNCHANGED <<inputs, resources, exports>>

SshStep05Only2(base_ingress, deployment_version) ==
    IF FloatGE(deployment_version, 2) /\ ~FloatGE(deployment_version, 3)
    THEN Append(base_ingress, SshRule05)
    ELSE base_ingress

SshStep05Above2(base_ingress, deployment_version) ==
    IF FloatOf(deployment_version)[1] > 2 * FloatOf(deployment_version)[2]
    THEN Append(base_ingress, SshRule05)
    ELSE base_ingress

SshStep05From3(base_ingress, deployment_version) ==
    IF FloatGE(deployment_version, 3) THEN Append(base_ingress, SshRule05)
    ELSE base_ingress

\* line 126: if float(deployment_version) >= 2.0
SshStep05(base_ingress, deployment_version) ==
    IF FloatGE(deployment_version, 2) THEN Append(base_ingress, SshRule05)
    ELSE base_ingress

\* line 137: if float(deployment_version) >= 3.0
HttpsStep05(base_ingress, deployment_version) ==
    IF FloatGE(deployment_version, 3) THEN Append(base_ingress, HttpsRule05)
    ELSE base_ingress

AppendSsh05 ==
    /\ script = "preview05" /\ pc = "p05_ssh"
    /\ IF ~IsFloatText(locals.deployment_version)
       THEN /\ Fail([kind |-> "ValueError", about |-> "deployment_version",
                     got |-> locals.deployment_version])
            /\ UNCHANGED locals
       ELSE /\ locals' = Bind(locals, "base_ingress",
                              SshStep05(locals.base_ingress, locals.deployment_version))
            /\ Goto("p05_https")
    /\ UNCHANGED <<inputs, resources, exports>>

AppendHttps05 ==
    /\ script = "preview05" /\ pc = "p05_https"
    /\ IF ~IsFloatText(locals.deployment_version)
       THEN /\ Fail([kind |-> "ValueError", about |-> "deployment_version",
                     got |-> locals.deployment_version])
            /\ UNCHANGED locals
       ELSE /\ locals' = Bind(locals, "base_ingress",
                              HttpsStep05(locals.base_ingress, locals.deployment_version))
            /\ Goto("p05_sg")
    /\ UNCHANGED <<inputs, resources, exports>>

SecurityGroup05OneRuleCount(l) ==
    [type |-> "SecurityGroup", name |-> "preview-update-sg",
     refs |-> [vpc_id |-> "preview-update-vpc"], ingress |-> l.base_ingress,
     tags |-> [Name |-> "preview-update-sg", Purpose |-> "PreviewUpdateDemo",
               Version |-> l.deployment_version,
               RulesCount |-> Str(1)]]

\* lines 147-165
SecurityGroup05(l) ==
    [type |-> "SecurityGroup", name |-> "preview-update-sg",
     refs |-> [vpc_id |-> "preview-update-vpc"], ingress |-> l.base_ingress,
     tags |-> [Name |-> "preview-update-sg", Purpose |-> "PreviewUpdateDemo",
               Version |-> l.deployment_version,
               RulesCount |-> Str(Len(l.base_ingress))]]

DeclareSecurityGroup05 ==
    /\ script = "preview05" /\ pc = "p05_sg"
    /\ resources' = Declare(resources, SecurityGroup05(locals))
    /\ Goto("p05_bucket")
    /\ UNCHANGED <<inputs, locals, exports>>

\* lines 170-201
Bucket05(l) ==
    [type |-> "Bucket", name |-> "preview-update-demo-bucket", refs |-> EmptyMap,
     tags |-> Tags05("preview-update-demo-bucket", l)]

BucketPolicy05 ==
    [type |-> "BucketPolicy", name |-> "preview-update-bucket-policy",
     refs |-> [bucket |-> "preview-update-demo-bucket"],
     policy |-> Apply(Attr("preview-update-demo-bucket", "id"), "policy-json"),
     tags |-> EmptyMap]

DeclareBucket05 ==
    /\ script = "preview05" /\ pc = "p05_bucket"
    /\ resources' = IF locals.enable_monitoring
                    THEN Declare(Declare(resources, Bucket05(locals)), BucketPolicy05)
                    ELSE Declare(resources, Bucket05(locals))
    /\ Goto("p05_instance")
    /\ UNCHANGED <<inputs, locals, exports>>

\* lines 208-330: the f-string formats s3_bucket.id where it stands
UserData05(l) ==
    [deferred |-> FALSE,
     attrs |-> <<Attr("preview-update-demo-bucket", "id")>>,
     subst |-> [deployment_version |-> l.deployment_version,
                enable_monitoring |-> l.enable_monitoring,
                rules |-> Len(l.base_ingress)]]

Instance05(l) ==
    [type |-> "Instance", name |-> "preview-update-instance",
     refs |-> [subnet_id |-> "preview-update-subnet",
               vpc_security_group_ids |-> <<"preview-update-sg">>],
     instance_type |-> "t2.micro", user_data |-> UserData05(l),
     tags |-> [Name |-> "preview-update-instance", Purpose |-> "PreviewUpdateDemo",
               Version |-> l.deployment_version,
               DeploymentType |-> "preview-update-demo"]]

DeclareInstance05 ==
    /\ script = "preview05" /\ pc = "p05_instance"
    /\ resources' = Declare(resources, Instance05(locals))
    /\ Goto("p05_export")
    /\ UNCHANGED <<inputs, locals, exports>>

\* lines 339-398
ExportMap05(l) ==
    [demo_type |-> "Preview & Update Workflow Demo",
     deployment_info |->
        [version |-> l.deployment_version,
         monitoring_enabled |-> l.enable_monitoring,
         security_rules_count |-> Len(l.base_ingress),
         timestamp |-> "deployment-time-will-be-set-on-apply"],
     workflow_commands |-> "fixed-text",
     version_upgrade_demo |-> [current_version |-> l.deployment_version],
     demo_access |->
        [instance_url |-> Apply(Attr("preview-update-instance", "public_ip"), "http-url"),
         ssh_command |->
            IF FloatGE(l.deployment_version, 2)
            THEN Apply(Attr("preview-update-instance", "public_ip"), "ssh-command")
            ELSE [deferred |-> FALSE, text |-> "SSH not available in v1.0"],
         s3_bucket |-> Attr("preview-update-demo-bucket", "id")],
     safety_features |-> "fixed-text"]

Export05 ==
    /\ script = "preview05" /\ pc = "p05_export"
    /\ exports' = ExportMap05(locals)
    /\ Goto("done")
    /\ UNCHANGED <<inputs, locals, resources>>

Next05 ==
    \/ ReadConfig05
    \/ DeclareVpc05 \/ DeclareIgw05 \/ DeclareSubnet05 \/ DeclareRouteTable05
    \/ InitIngress05 \/ AppendSsh05 \/ AppendHttps05 \/ DeclareSecurityGroup05
    \/ DeclareBucket05 \/ DeclareInstance05 \/ Export05

-----------------------------------------------------------------------------
(* demo/01_stacks_demo.py *)

StackNames == {"dev", "staging", "prod", "qa", "production"}

stack_configs ==
    [dev |-> [instance_type |-> "t2.micro", instance_count |-> 1,
              environment |-> "development", enable_monitoring |-> FALSE],
     staging |-> [instance_type |-> "t3.small", instance_count |-> 2,
                  environment |-> "staging", enable_monitoring |-> TRUE],
     prod |-> [instance_type |-> "t3.medium", instance_count |-> 3,
               environment |-> "production", enable_monitoring |-> TRUE]]

StackConfigProdFallback(name) ==
    IF Has(stack_configs, name) THEN stack_configs[name] ELSE stack_configs["prod"]

\* line 47: stack_configs.get(stack_name, stack_configs["dev"])
StackConfig(name) ==
    IF Has(stack_configs, name) THEN stack_configs[name] ELSE stack_configs["dev"]

Init01 ==
    /\ script = "stacks01"
    /\ pc = "s01_config"
    /\ stack_name \in StackNames
    /\ cfg = EmptyMap
    /\ osenv = EmptyMap
    /\ azs \in AzLists

Name01(stack, role) == <<stack, "-", role>>

ReadConfig01 ==
    /\ script = "stacks01" /\ pc = "s01_config"
    /\ locals' = Bind(locals, "config", StackConfig(stack_name))
    /\ Goto("s01_vpc")
    /\ UNCHANGED <<inputs, resources, exports>>

\* lines 62-105
Vpc01(stack, l) ==
    [type |-> "Vpc", name |-> Name01(stack, "vpc"), refs |-> EmptyMap,
     cidr_block |-> "10.0.0.0/16",
     tags |-> [Name |-> Name01(stack, "vpc"), Environment |-> l.config.environment,
               Stack |-> stack, ManagedBy |-> "Pulumi-Stacks-Demo"]]

Igw01(stack) ==
    [type |-> "InternetGateway", name |-> Name01(stack, "igw"),
     refs |-> [vpc_id |-> Name01(stack, "vpc")],
     tags |-> [Name |-> Name01(stack, "igw"), Stack |-> stack]]

Subnet01(stack, zones) ==
    [type |-> "Subnet", name |-> Name01(stack, "subnet"),
     refs |-> [vpc_id |-> Name01(stack, "vpc")],
     cidr_block |-> "10.0.1.0/24", availability_zone |-> zones[1],
     tags |-> [Name |-> Name01(stack, "subnet"), Stack |-> stack]]

RouteTable01(stack) ==
    [type |-> "RouteTable", name |-> Name01(stack, "rt"),
     refs |-> [vpc_id |-> Name01(stack, "vpc"), gateway_id |-> Name01(stack, "igw")],
     tags |-> [Name |-> Name01(stack, "rt"), Stack |-> stack]]

RouteTableAssociation01(stack) ==
    [type |-> "RouteTableAssociation", name |-> Name01(stack, "rt-assoc"),
     refs |-> [subnet_id |-> Name01(stack, "subnet"),
               route_table_id |-> Name01(stack, "rt")],
     tags |-> EmptyMap]

DeclareVpc01 ==
    /\ script = "stacks01" /\ pc = "s01_vpc"
    /\ resources' = Declare(resources, Vpc01(stack_name, locals))
    /\ Goto("s01_igw")
    /\ UNCHANGED <<inputs, locals, exports>>

DeclareIgw01 ==
    /\ script = "stacks01" /\ pc = "s01_igw"
    /\ resources' = Declare(resources, Igw01(stack_name))
    /\ Goto("s01_subnet")
    /\ UNCHANGED <<inputs, locals, exports>>

DeclareSubnet01 ==
    /\ script = "stacks01" /\ pc = "s01_subnet"
    /\ resources' = Declare(resources, Subnet01(stack_name, azs))
    /\ Goto("s01_rt")
    /\ UNCHANGED <<inputs, locals, exports>>

DeclareRouteTable01 ==
    /\ script = "stacks01" /\ pc = "s01_rt"
    /\ resources' = Declare(Declare(resources, RouteTable01(stack_name)),
                            RouteTableAssociation01(stack_name))
    /\ Goto("s01_sg")
    /\ UNCHANGED <<inputs, locals, exports>>

\* lines 107-117
Ingress01 ==
    <<[from_port |-> 80, to_port |-> 80, protocol |-> "tcp",
       cidr_blocks |-> <<"0.0.0.0/0">>],
      [from_port |-> 22, to_port |-> 22, protocol |-> "tcp",
       cidr_blocks |-> <<"0.0.0.0/0">>]>>

SecurityGroup01(stack) ==
    [type |-> "SecurityGroup", name |-> Name01(stack, "sg"),
     refs |-> [vpc_id |-> Name01(stack, "vpc")], ingress |-> Ingress01,
     tags |-> [Name |-> Name01(stack, "sg"), Stack |-> stack]]

DeclareSecurityGroup01 ==
    /\ script = "stacks01" /\ pc = "s01_sg"
    /\ resources' = Declare(resources, SecurityGroup01(stack_name))
    /\ locals' = Bind(Bind(locals, "instances", <<>>), "i", 0)
    /\ Goto("s01_loop")
    /\ UNCHANGED <<inputs, exports>>

\* lines 119-170: one instance per iteration of range(config["instance_count"])
InstanceName01(stack, i) == <<stack, "-", "instance-", i + 1>>

UserData01(stack, l, i) ==
    [deferred |-> FALSE, attrs |-> <<>>,
     subst |-> [stack_name |-> stack, environment |-> l.config.environment,
                instance_type |-> l.config.instance_type,
                instance_count |-> l.config.instance_count, number |-> i + 1,
                enable_monitoring |-> l.config.enable_monitoring]]

Instance01(stack, l, i) ==
    [type |-> "Instance", name |-> InstanceName01(stack, i),
     refs |-> [subnet_id |-> Name01(stack, "subnet"),
               vpc_security_group_ids |-> <<Name01(stack, "sg")>>],
     instance_type |-> l.config.instance_type, user_data |-> UserData01(stack, l, i),
     tags |-> [Name |-> InstanceName01(stack, i),
               Environment |-> l.config.environment, Stack |-> stack,
               InstanceNumber |-> Str(i + 1)]]

LoopContinues01(i, instance_count) == i < instance_count

DeclareInstance01 ==
    /\ script = "stacks01" /\ pc = "s01_loop"
    /\ LoopContinues01(locals.i, locals.config.instance_count)
    /\ resources' = Declare(resources, Instance01(stack_name, locals, locals.i))
    /\ locals' = Bind(Bind(locals, "instances",
                           Append(locals.instances, InstanceName01(stack_name, locals.i))),
                      "i", locals.i + 1)
    /\ Goto("s01_loop")
    /\ UNCHANGED <<inputs, exports>>

\* lines 172-188
ExportMap01(stack, l) ==
    [stack_name |-> stack,
     environment |-> l.config.environment,
     instance_count |-> l.config.instance_count,
     instance_type |-> l.config.instance_type,
     instance_urls |-> [k \in 1..Len(l.instances) |->
                           Apply(Attr(l.instances[k], "public_ip"), "http-url")],
     ssh_commands |-> [k \in 1..Len(l.instances) |->
                          Apply(Attr(l.instances[k], "public_ip"), "ssh-command")]]

Export01 ==
    /\ script = "stacks01" /\ pc = "s01_loop"
    /\ ~LoopContinues01(locals.i, locals.config.instance_count)
    /\ exports' = ExportMap01(stack_name, locals)
    /\ Goto("done")
    /\ UNCHANGED <<inputs, locals, resources>>

Next01 ==
    \/ ReadConfig01
    \/ DeclareVpc01 \/ DeclareIgw01 \/ DeclareSubnet01 \/ DeclareRouteTable01
    \/ DeclareSecurityGroup01 \/ DeclareInstance01 \/ Export01

-----------------------------------------------------------------------------
(* demo/04_state_demo.py *)

Init04 ==
    /\ script = "state04"
    /\ pc = "s04_declare"
    /\ stack_name \in StackNames
    /\ cfg = EmptyMap
    /\ osenv = EmptyMap
    /\ azs \in AzLists

\* lines 32-283: the nine resources, in declaration order; user_data is a
\* plain string literal
Declare04 ==
    /\ script = "state04" /\ pc = "s04_declare"
    /\ LET tracked(name) == [Name |-> name, Purpose |-> "StateDemo",
                             StateTracking |-> "managed-by-pulumi"]
       IN resources' =
             <<[type |-> "Vpc", name |-> "state-demo-vpc", refs |-> EmptyMap,
                cidr_block |-> <<10, 100, 0, 0, 16>>, tags |-> tracked("state-demo-vpc")],
               [type |-> "InternetGateway", name |-> "state-demo-igw",
                refs |-> [vpc_id |-> "state-demo-vpc"],
                tags |-> tracked("state-demo-igw")],
               [type |-> "Subnet", name |-> "state-demo-subnet",
                refs |-> [vpc_id |-> "state-demo-vpc"],
                cidr_block |-> <<10, 100, 1, 0, 24>>, availability_zone |-> azs[1],
                tags |-> tracked("state-demo-subnet")],
               [type |-> "RouteTable", name |-> "state-demo-rt",
                refs |-> [vpc_id |-> "state-demo-vpc", gateway_id |-> "state-demo-igw"],
                tags |-> [Name |-> "state-demo-rt", Purpose |-> "StateDemo"]],
               [type |-> "RouteTableAssociation", name |-> "state-demo-rt-assoc",
                refs |-> [subnet_id |-> "state-demo-subnet",
                          route_table_id |-> "state-demo-rt"],
                tags |-> EmptyMap],
               [type |-> "SecurityGroup", name |-> "state-demo-sg",
                refs |-> [vpc_id |-> "state-demo-vpc"],
                ingress |-> <<[description |-> "HTTP - Initial State", from_port |-> 80,
                               to_port |-> 80, protocol |-> "tcp",
                               cidr_blocks |-> <<"0.0.0.0/0">>]>>,
                tags |-> [Name |-> "state-demo-sg", Purpose |-> "StateDemo",
                          Version |-> "1.0", StateDemo |-> "initial-version"]],
               [type |-> "Bucket", name |-> "state-demo-bucket", refs |-> EmptyMap,
                tags |-> tracked("state-demo-bucket")],
               [type |-> "BucketVersioning", name |-> "state-demo-bucket-versioning",
                refs |-> [bucket |-> "state-demo-bucket"], tags |-> EmptyMap],
               [type |-> "Instance", name |-> "state-demo-instance",
                refs |-> [subnet_id |-> "state-demo-subnet",
                          vpc_security_group_ids |-> <<"state-demo-sg">>],
                instance_type |-> "t2.micro",
                user_data |-> [deferred |-> FALSE, attrs |-> <<>>, subst |-> EmptyMap],
                tags |-> [Name |-> "state-demo-instance", Purpose |-> "StateDemo",
                          StateTracking |-> "managed-by-pulumi", Version |-> "1.0"]]>>
    /\ Goto("s04_export")
    /\ UNCHANGED <<inputs, locals, exports>>

\* lines 293-360
Export04 ==
    /\ script = "state04" /\ pc = "s04_export"
    /\ LET in_state(name) == [logical_name |-> name, physical_id |-> Attr(name, "id")]
           public_ip == Attr("state-demo-instance", "public_ip")
       IN exports' =
             [demo_type |-> "State Management Demo",
              state_info |-> [stack_name |-> stack_name, project_name |-> "project",
                              resources_managed |-> 7, state_storage |-> "local"],
              resources_in_state |->
                  [vpc |-> in_state("state-demo-vpc"),
                   internet_gateway |-> in_state("state-demo-igw"),
                   subnet |-> in_state("state-demo-subnet"),
                   security_group |-> in_state("state-demo-sg"),
                   ec2_instance |-> in_state("state-demo-instance"),
                   s3_bucket |-> in_state("state-demo-bucket")],
              state_commands |-> "fixed-text",
              demo_access |-> [instance_url |-> Apply(public_ip, "http-url"),
                               ssh_command |-> Apply(public_ip, "ssh-command"),
                               s3_bucket |-> Attr("state-demo-bucket", "id")],
              state_change_demo |-> "fixed-text"]
    /\ Goto("done")
    /\ UNCHANGED <<inputs, locals, resources>>

-----------------------------------------------------------------------------
(* demo/02_resources_demo.py *)

Init02 ==
    /\ script = "resources02"
    /\ pc = "r02_vpc"
    /\ stack_name = "dev"
    /\ cfg = EmptyMap
    /\ osenv = EmptyMap
    /\ azs \in AzLists

\* lines 52-74: vpc, igw, subnets = []
DeclareVpc02 ==
    /\ script = "resources02" /\ pc = "r02_vpc"
    /\ resources' =
          <<[type |-> "Vpc", name |-> <<"resources-demo-vpc">>, refs |-> EmptyMap,
             cidr_block |-> <<10, 0, 0, 0, 16>>,
             tags |-> [Name |-> "resources-demo-vpc", ResourceType |-> "Physical",
                       Demo |-> "Resources"]],
            [type |-> "InternetGateway", name |-> <<"resources-demo-igw">>,
             refs |-> [vpc_id |-> <<"resources-demo-vpc">>],
             tags |-> [Name |-> "resources-demo-igw", ResourceType |-> "Physical"]]>>
    /\ locals' = Bind(Bind(locals, "subnets", <<>>), "i", 0)
    /\ Goto("r02_subnets")
    /\ UNCHANGED <<inputs, exports>>

\* lines 75-88: for i, az in enumerate(azs.names[:2]), one iteration
DeclareSubnet02 ==
    /\ script = "resources02" /\ pc = "r02_subnets"
    /\ locals.i < Len(azs) /\ locals.i < 2
    /\ LET i == locals.i
           name == <<"resources-demo-subnet-", Str(i + 1)>>
       IN /\ resources' =
                 Declare(resources,
                         [type |-> "Subnet", name |-> name,
                          refs |-> [vpc_id |-> <<"resources-demo-vpc">>],
                          cidr_block |-> <<10, 0, i + 1, 0, 24>>,
                          availability_zone |-> azs[i + 1],
                          tags |-> [Name |-> name, ResourceType |-> "Physical",
                                    AZ |-> azs[i + 1]]])
          /\ locals' = Bind(Bind(locals, "subnets", Append(locals.subnets, name)),
                            "i", i + 1)
    /\ Goto("r02_subnets")
    /\ UNCHANGED <<inputs, exports>>

\* lines 92-301: the bucket, the security group, the route table, one
\* association and one instance per subnet, and the exports; data-source
\* results (ami id, account id, region) are plain values known while the
\* program runs
DeclareRest02 ==
    /\ script = "resources02" /\ pc = "r02_subnets"
    /\ ~(locals.i < Len(azs) /\ locals.i < 2)
    /\ LET subnets == locals.subnets
           n == Len(subnets)
           instance(k) == <<"resources-demo-instance-", Str(k)>>
       IN /\ resources' =
                 resources
                 \o <<[type |-> "Bucket", name |-> <<"resources-demo-bucket">>,
                       refs |-> EmptyMap,
                       tags |-> [Name |-> "resources-demo-bucket",
                                 ResourceType |-> "Physical", Purpose |-> "Demo"]],
                      [type |-> "SecurityGroup", name |-> <<"resources-demo-sg">>,
                       refs |-> [vpc_id |-> <<"resources-demo-vpc">>],
                       ingress |->
                           <<[description |-> "HTTP", from_port |-> 80, to_port |-> 80,
                              protocol |-> "tcp", cidr_blocks |-> <<"0.0.0.0/0">>],
                             [description |-> "SSH", from_port |-> 22, to_port |-> 22,
                              protocol |-> "tcp", cidr_blocks |-> <<"10.0.0.0/16">>]>>,
                       tags |-> [Name |-> "resources-demo-sg",
                                 ResourceType |-> "Logical"]],
                      [type |-> "RouteTable", name |-> <<"resources-demo-rt">>,
                       refs |-> [vpc_id |-> <<"resources-demo-vpc">>,
                                 gateway_id |-> <<"resources-demo-igw">>],
                       tags |-> [Name |-> "resources-demo-rt",
                                 ResourceType |-> "Logical"]]>>
                 \o [k \in 1..n |->
                        [type |-> "RouteTableAssociation",
                         name |-> <<"resources-demo-rt-assoc-", Str(k)>>,
                         refs |-> [subnet_id |-> subnets[k],
                                   route_table_id |-> <<"resources-demo-rt">>],
                         tags |-> EmptyMap]]
                 \o [k \in 1..n |->
                        [type |-> "Instance", name |-> instance(k),
                         refs |-> [subnet_id |-> subnets[k],
                                   vpc_security_group_ids |-> <<<<"resources-demo-sg">>>>],
                         instance_type |-> "t2.micro",
                         user_data |-> [deferred |-> FALSE, attrs |-> <<>>,
                                        subst |-> [number |-> k]],
                         tags |-> [Name |-> instance(k), ResourceType |-> "Compute",
                                   SubnetNumber |-> Str(k), Demo |-> "Resources"]]]
          /\ exports' =
                 [demo_type |-> "Resources Demo",
                  data_sources |-> [availability_zones |-> azs, ami_id |-> "ami",
                                    account_id |-> "account", region |-> "region"],
                  physical_resources |->
                      [vpc_id |-> Attr(<<"resources-demo-vpc">>, "id"),
                       vpc_cidr |-> <<10, 0, 0, 0, 16>>,
                       igw_id |-> Attr(<<"resources-demo-igw">>, "id"),
                       subnet_ids |-> [k \in 1..n |-> Attr(subnets[k], "id")],
                       s3_bucket_name |-> Attr(<<"resources-demo-bucket">>, "id")],
                  logical_resources |->
                      [security_group_id |-> Attr(<<"resources-demo-sg">>, "id"),
                       route_table_id |-> Attr(<<"resources-demo-rt">>, "id"),
                       route_table_associations |-> n],
                  compute_resources |->
                      [instance_ids |-> [k \in 1..n |-> Attr(instance(k), "id")],
                       instance_public_ips |->
                           [k \in 1..n |-> Attr(instance(k), "public_ip")],
                       instance_urls |->
                           [k \in 1..n |->
                               Apply(Attr(instance(k), "public_ip"), "http-url")]]]
    /\ Goto("done")
    /\ UNCHANGED <<inputs, locals>>

-----------------------------------------------------------------------------
(* pulumi-presentation/advanced_demo.py *)

MaxSelectedAzs == 3

StoresAdv ==
    {a @@ b @@ c @@ d @@ e :
        a \in Opt("environment", {"", "dev", "staging", "production", "qa"}),
        b \in Opt("instance_count", Strings(IntChars, MaxIntLen)),
        c \in Opt("enable_monitoring", {"true", "false"}),
        d \in Opt("enable_backup", {"true", "false"}),
        e \in Opt("cost_optimization", {"true", "false"})}

InitAdv ==
    /\ script = "advanced"
    /\ pc = "adv_config"
    /\ stack_name = "dev"
    /\ cfg \in StoresAdv
    /\ osenv = EmptyMap
    /\ azs \in AzLists

\* Config.get(key) / get_int(key) / get_bool(key) without a default give None
\* for an absent key; "x or d" takes d when x is None or the falsy value of
\* its type ("", 0, False)
None == [none |-> TRUE]

Falsy(x, zero) == x = None \/ x.v = zero

OrDefault(x, zero, d) == IF Falsy(x, zero) THEN d ELSE x.v

\* lines 21-27
ResolveEnvironment(c) ==
    OrDefault(IF Has(c, "environment") THEN [v |-> c["environment"]] ELSE None,
              "", "demo")

ResolveInstanceCount(c) ==
    OrDefault(IF Has(c, "instance_count")
              THEN [v |-> ConfigGetInt(c, "instance_count", 0).val] ELSE None,
              0, 3)

ResolveFlag(c, key, d) ==
    OrDefault(IF Has(c, key) THEN [v |-> ConfigGetBool(c, key, FALSE).val] ELSE None,
              FALSE, d)

ReadConfigAdv ==
    /\ script = "advanced" /\ pc = "adv_config"
    /\ IF ~ConfigGetInt(cfg, "instance_count", 0).ok
       THEN /\ Fail([kind |-> "ConfigTypeError", key |-> "instance_count"])
            /\ locals' = Bind(locals, "environment", ResolveEnvironment(cfg))
       ELSE IF \E k \in {"enable_monitoring", "enable_backup", "cost_optimization"} :
                  ~ConfigGetBool(cfg, k, FALSE).ok
       THEN /\ Fail([kind |-> "ConfigTypeError", key |-> "flag"])
            /\ locals' = Bind(Bind(locals, "environment", ResolveEnvironment(cfg)),
                              "instance_count", ResolveInstanceCount(cfg))
       ELSE /\ locals' =
                 Bind(Bind(Bind(Bind(Bind(locals,
                    "environment", ResolveEnvironment(cfg)),
                    "instance_count", ResolveInstanceCount(cfg)),
                    "enable_monitoring", ResolveFlag(cfg, "enable_monitoring", TRUE)),
                    "enable_backup", ResolveFlag(cfg, "enable_backup", FALSE)),
                    "cost_optimization", ResolveFlag(cfg, "cost_optimization", TRUE))
            /\ Goto("adv_env_config")
    /\ UNCHANGED <<inputs, resources, exports>>

\* lines 39-85: get_environment_config(env)
configs ==
    [dev |-> [instance_type |-> "t3.micro", min_size |-> 1, max_size |-> 2,
              enable_detailed_monitoring |-> FALSE, backup_retention |-> 7,
              multi_az |-> FALSE, allowed_cidr |-> "0.0.0.0/0"],
     staging |-> [instance_type |-> "t3.small", min_size |-> 2, max_size |-> 4,
                  enable_detailed_monitoring |-> TRUE, backup_retention |-> 14,
                  multi_az |-> TRUE, allowed_cidr |-> "10.0.0.0/8"],
     production |-> [instance_type |-> "t3.medium", min_size |-> 3, max_size |-> 10,
                     enable_detailed_monitoring |-> TRUE, backup_retention |-> 30,
                     multi_az |-> TRUE, allowed_cidr |-> "10.0.0.0/8"]]

DowngradeNone(t) == t

\* lines 75-78
Downgrade(t) ==
    IF t = "t3.medium" THEN "t3.small" ELSE IF t = "t3.small" THEN "t3.micro" ELSE t

get_environment_config(env, cost_optimization) ==
    LET config == IF Has(configs, env) THEN configs[env] ELSE configs["dev"]
    IN IF cost_optimization /\ env # "production"
       THEN Bind([config EXCEPT !.instance_type = Downgrade(@)], "cost_optimized", TRUE)
       ELSE Bind(config, "cost_optimized", FALSE)

EnvConfigAdv ==
    /\ script = "advanced" /\ pc = "adv_env_config"
    /\ locals' = Bind(locals, "env_config",
                      get_environment_config(locals.environment, locals.cost_optimization))
    /\ Goto("adv_vpc")
    /\ UNCHANGED <<inputs, resources, exports>>

\* lines 90-103
VpcAdv(l) ==
    [type |-> "Vpc", name |-> "advanced-demo-vpc", refs |-> EmptyMap,
     cidr_block |-> <<10, 100, 0, 0, 16>>,
     tags |-> [Name |-> <<"advanced-demo-vpc-", l.environment>>,
               Environment |-> l.environment, ManagedBy |-> "Pulumi-Advanced-Demo",
               CostOptimized |-> StrBool(l.env_config.cost_optimized)]]

\* line 110
SelectedAzs(zones, multi_az) ==
    IF multi_az
    THEN SubSeq(zones, 1, IF Len(zones) < MaxSelectedAzs THEN Len(zones) ELSE MaxSelectedAzs)
    ELSE <<zones[1]>>

DeclareVpcAdv ==
    /\ script = "advanced" /\ pc = "adv_vpc"
    /\ resources' = Declare(resources, VpcAdv(locals))
    /\ locals' = Bind(Bind(Bind(Bind(locals, "subnets", <<>>),
                                "route_table_associations", <<>>),
                           "selected_azs", SelectedAzs(azs, locals.env_config.multi_az)),
                      "i", 0)
    /\ Goto("adv_subnets")
    /\ UNCHANGED <<inputs, exports>>

\* lines 114-131: for i, az in enumerate(selected_azs)
SubnetCidrAdv(i) == <<10, 100, i + 1, 0, 24>>

SubnetAdv(l, i) ==
    [type |-> "Subnet", name |-> <<"advanced-subnet-", i>>,
     refs |-> [vpc_id |-> "advanced-demo-vpc"],
     cidr_block |-> SubnetCidrAdv(i), availability_zone |-> l.selected_azs[i + 1],
     tags |-> [Name |-> <<"advanced-subnet-", i, "-", l.selected_azs[i + 1]>>,
               Environment |-> l.environment, AZ |-> l.selected_azs[i + 1],
               SubnetType |-> "Public", CIDR |-> SubnetCidrAdv(i)]]

DeclareSubnetAdv ==
    /\ script = "advanced" /\ pc = "adv_subnets"
    /\ locals.i < Len(locals.selected_azs)
    /\ resources' = Declare(resources, SubnetAdv(locals, locals.i))
    /\ locals' = Bind(Bind(locals, "subnets",
                           Append(locals.subnets, <<"advanced-subnet-", locals.i>>)),
                      "i", locals.i + 1)
    /\ Goto("adv_subnets")
    /\ UNCHANGED <<inputs, exports>>

\* lines 133-166
IgwAdv(l) ==
    [type |-> "InternetGateway", name |-> "advanced-igw",
     refs |-> [vpc_id |-> "advanced-demo-vpc"],
     tags |-> [Name |-> <<"advanced-igw-", l.environment>>,
               Environment |-> l.environment]]

RoutesAdv(environment) ==
    IF environment = "production"
    THEN <<[cidr_block |-> "0.0.0.0/0", gateway_id |-> "advanced-igw"],
           [cidr_block |-> "192.168.0.0/16", gateway_id |-> "advanced-igw"]>>
    ELSE <<[cidr_block |-> "0.0.0.0/0", gateway_id |-> "advanced-igw"]>>

RouteTableAdv(l) ==
    [type |-> "RouteTable", name |-> "advanced-rt",
     refs |-> [vpc_id |-> "advanced-demo-vpc", gateway_id |-> "advanced-igw"],
     routes |-> RoutesAdv(l.environment),
     tags |-> [Name |-> <<"advanced-rt-", l.environment>>,
               Environment |-> l.environment,
               RouteCount |-> Str(Len(RoutesAdv(l.environment)))]]

DeclareRouteTableAdv ==
    /\ script = "advanced" /\ pc = "adv_subnets"
    /\ locals.i >= Len(locals.selected_azs)
    /\ resources' = Declare(Declare(resources, IgwAdv(locals)), RouteTableAdv(locals))
    /\ locals' = Bind(locals, "i", 0)
    /\ Goto("adv_assoc")
    /\ UNCHANGED <<inputs, exports>>

\* lines 168-174: for i, subnet in enumerate(subnets)
AssociationAdv(l, i) ==
    [type |-> "RouteTableAssociation", name |-> <<"advanced-rt-assoc-", i>>,
     refs |-> [subnet_id |-> l.subnets[i + 1], route_table_id |-> "advanced-rt"],
     tags |-> EmptyMap]

DeclareAssociationAdv ==
    /\ script = "advanced" /\ pc = "adv_assoc"
    /\ locals.i < Len(locals.subnets)
    /\ resources' = Declare(resources, AssociationAdv(locals, locals.i))
    /\ locals' = Bind(Bind(locals, "route_table_associations",
                           Append(locals.route_table_associations,
                                  <<"advanced-rt-assoc-", locals.i>>)),
                      "i", locals.i + 1)
    /\ Goto("adv_assoc")
    /\ UNCHANGED <<inputs, exports>>

\* lines 176-200: the rule list
BaseRulesAdv ==
    <<[port |-> 80, protocol |-> "tcp", description |-> "HTTP"],
      [port |-> 443, protocol |-> "tcp", description |-> "HTTPS"]>>

SshRuleAdv(env_config) ==
    [port |-> 22, protocol |-> "tcp", description |-> "SSH",
     cidr_blocks |-> <<env_config.allowed_cidr>>]

MonitoringRulesAdv ==
    <<[port |-> 9090, protocol |-> "tcp", description |-> "Prometheus"],
      [port |-> 3000, protocol |-> "tcp", description |-> "Grafana"]>>

HealthCheckRuleAdv ==
    [port |-> 8080, protocol |-> "tcp",
     description |-> "App Load Balancer Health Check"]

InitRulesAdv ==
    /\ script = "advanced" /\ pc = "adv_assoc"
    /\ locals.i >= Len(locals.subnets)
    /\ locals' = Bind(locals, "base_security_rules", BaseRulesAdv)
    /\ Goto("adv_ssh_rule")
    /\ UNCHANGED <<inputs, resources, exports>>

AppendSshAdv ==
    /\ script = "advanced" /\ pc = "adv_ssh_rule"
    /\ locals' = Bind(locals, "base_security_rules",
                      Append(locals.base_security_rules, SshRuleAdv(locals.env_config)))
    /\ Goto("adv_monitoring_rules")
    /\ UNCHANGED <<inputs, resources, exports>>

MonitoringStepAdvReplace(rules, enable_monitoring) ==
    IF enable_monitoring THEN MonitoringRulesAdv \o rules ELSE rules

MonitoringStepAdv(rules, enable_monitoring) ==
    IF enable_monitoring THEN rules \o MonitoringRulesAdv ELSE rules

ExtendMonitoringAdv ==
    /\ script = "advanced" /\ pc = "adv_monitoring_rules"
    /\ locals' = Bind(locals, "base_security_rules",
                      MonitoringStepAdv(locals.base_security_rules,
                                        locals.enable_monitoring))
    /\ Goto("adv_health_rule")
    /\ UNCHANGED <<inputs, resources, exports>>

HealthStepAdv(rules, instance_count) ==
    IF instance_count > 2 THEN Append(rules, HealthCheckRuleAdv) ELSE rules

AppendHealthAdv ==
    /\ script = "advanced" /\ pc = "adv_health_rule"
    /\ locals' = Bind(locals, "base_security_rules",
                      HealthStepAdv(locals.base_security_rules, locals.instance_count))
    /\ Goto("adv_sg")
    /\ UNCHANGED <<inputs, resources, exports>>

\* lines 204-228
IngressAdv(rules) ==
    [k \in 1..Len(rules) |->
        [from_port |-> rules[k].port, to_port |-> rules[k].port,
         protocol |-> rules[k].protocol,
         cidr_blocks |-> IF Has(rules[k], "cidr_blocks") THEN rules[k].cidr_blocks
                         ELSE <<"0.0.0.0/0">>,
         description |-> rules[k].description]]

SecurityGroupAdv(l) ==
    [type |-> "SecurityGroup", name |-> "advanced-sg",
     refs |-> [vpc_id |-> "advanced-demo-vpc"],
     ingress |-> IngressAdv(l.base_security_rules),
     tags |-> [Name |-> <<"advanced-sg-", l.environment>>,
               Environment |-> l.environment,
               RuleCount |-> Str(Len(l.base_security_rules)),
               MonitoringEnabled |-> StrBool(l.enable_monitoring)]]

DeclareSecurityGroupAdv ==
    /\ script = "advanced" /\ pc = "adv_sg"
    /\ resources' = Declare(resources, SecurityGroupAdv(locals))
    /\ locals' = Bind(Bind(Bind(locals, "instances", <<>>),
                           "load_balancer_targets", <<>>), "i", 0)
    /\ Goto("adv_instances")
    /\ UNCHANGED <<inputs, exports>>

\* lines 250-262: the first iteration calls generate_advanced_user_data, which
\* is bound by the def statement of line 286, not yet executed
InstancesAdv ==
    /\ script = "advanced" /\ pc = "adv_instances"
    /\ IF locals.i < locals.instance_count
       THEN Fail([kind |-> "NameError", name |-> "generate_advanced_user_data"])
       ELSE Goto("adv_after_instances")
    /\ UNCHANGED <<inputs, locals, resources, exports>>

NextAdv ==
    \/ ReadConfigAdv \/ EnvConfigAdv
    \/ DeclareVpcAdv \/ DeclareSubnetAdv \/ DeclareRouteTableAdv
    \/ DeclareAssociationAdv
    \/ InitRulesAdv \/ AppendSshAdv \/ ExtendMonitoringAdv \/ AppendHealthAdv
    \/ DeclareSecurityGroupAdv \/ InstancesAdv

-----------------------------------------------------------------------------
(* pulumi-presentation/components/webserver_component.py *)

\* the args mappings a caller passes to WebServerComponent: each key given
\* or left out; args=None is replaced by the empty mapping at lines 18-19
ComponentArgs ==
    {a @@ b @@ c @@ d :
        a \in Opt("vpc_cidr", {<<10, 0, 0, 0, 16>>, <<10, 2, 0, 0, 16>>}),
        b \in Opt("subnet_cidr", {<<10, 0, 1, 0, 24>>, <<10, 2, 1, 0, 24>>}),
        c \in Opt("environment", {"development", "production"}),
        d \in Opt("instance_type", {"t3.medium"})}

InitComponent ==
    /\ script = "component"
    /\ pc = "wsc_call"
    /\ stack_name = "dev"
    /\ cfg = EmptyMap
    /\ osenv = EmptyMap
    /\ azs \in AzLists

\* dict.get(key, default)
ArgsGet(args, key, default) == IF Has(args, key) THEN args[key] ELSE default

\* lines 15-154: what WebServerComponent(name, args) registers, in order:
\* the component itself (super().__init__('custom:WebServer', name, ...) at
\* line 16) and its seven child resources
WebServerComponent(name, args, selected_az) ==
    LET environment == ArgsGet(args, "environment", "demo")
        n(role) == name \o <<role>>
    IN <<[type |-> "custom:WebServer", name |-> name, refs |-> EmptyMap,
          tags |-> EmptyMap],
         [type |-> "Vpc", name |-> n("-vpc"), refs |-> EmptyMap,
          cidr_block |-> ArgsGet(args, "vpc_cidr", <<10, 0, 0, 0, 16>>),
          tags |-> [Name |-> n("-vpc"), Component |-> "WebServer",
                    ManagedBy |-> "Pulumi", Environment |-> environment]],
         [type |-> "Subnet", name |-> n("-public-subnet"),
          refs |-> [vpc_id |-> n("-vpc")],
          cidr_block |-> ArgsGet(args, "subnet_cidr", <<10, 0, 1, 0, 24>>),
          availability_zone |-> selected_az,
          tags |-> [Name |-> n("-public-subnet"), Component |-> "WebServer",
                    Environment |-> environment]],
         [type |-> "InternetGateway", name |-> n("-igw"),
          refs |-> [vpc_id |-> n("-vpc")],
          tags |-> [Name |-> n("-igw"), Component |-> "WebServer",
                    Environment |-> environment]],
         [type |-> "RouteTable", name |-> n("-rt"),
          refs |-> [vpc_id |-> n("-vpc"), gateway_id |-> n("-igw")],
          tags |-> [Name |-> n("-route-table"), Component |-> "WebServer",
                    Environment |-> environment]],
         [type |-> "RouteTableAssociation", name |-> n("-rt-assoc"),
          refs |-> [subnet_id |-> n("-public-subnet"), route_table_id |-> n("-rt")],
          tags |-> EmptyMap],
         [type |-> "SecurityGroup", name |-> n("-sg"),
          refs |-> [vpc_id |-> n("-vpc")],
          ingress |->
              <<[from_port |-> 80, to_port |-> 80, protocol |-> "tcp",
                 cidr_blocks |-> <<"0.0.0.0/0">>, description |-> "HTTP access"],
                [from_port |-> 443, to_port |-> 443, protocol |-> "tcp",
                 cidr_blocks |-> <<"0.0.0.0/0">>, description |-> "HTTPS access"],
                [from_port |-> 22, to_port |-> 22, protocol |-> "tcp",
                 cidr_blocks |-> <<"0.0.0.0/0">>, description |-> "SSH access"]>>,
          tags |-> [Name |-> n("-security-group"), Component |-> "WebServer",
                    Environment |-> environment]],
         [type |-> "Instance", name |-> n("-instance"),
          refs |-> [subnet_id |-> n("-public-subnet"),
                    security_groups |-> <<n("-sg")>>],
          instance_type |-> ArgsGet(args, "instance_type", "t3.micro"),
          key_name |-> ArgsGet(args, "key_name", "aws-365-keypair"),
          user_data |-> [deferred |-> FALSE, attrs |-> <<>>,
                         subst |-> [name |-> name, environment |-> environment]],
          tags |-> [Name |-> n("-instance"), Component |-> "WebServer",
                    Environment |-> environment, CreatedBy |-> "Pulumi-Component"]]>>

\* a caller constructs one component
CallComponent ==
    /\ script = "component" /\ pc = "wsc_call"
    /\ \E args \in ComponentArgs :
          /\ locals' = Bind(Bind(locals, "name", <<"web">>), "args", args)
          /\ resources' = resources \o WebServerComponent(<<"web">>, args, azs[1])
    /\ Goto("done")
    /\ UNCHANGED <<inputs, exports>>

-----------------------------------------------------------------------------
(* pulumi-presentation/demo_components.py *)

\* lines 21-43, in insertion order
EnvOrder == <<"development", "staging", "production">>

environments ==
    [development |-> [vpc_cidr |-> <<10, 0, 0, 0, 16>>, subnet_cidr |-> <<10, 0, 1, 0, 24>>,
                      instance_type |-> "t3.micro", key_name |-> "aws-365-keypair",
                      environment |-> "development"],
     staging |-> [vpc_cidr |-> <<10, 1, 0, 0, 16>>, subnet_cidr |-> <<10, 1, 1, 0, 24>>,
                  instance_type |-> "t3.small", key_name |-> "aws-365-keypair",
                  environment |-> "staging"],
     production |-> [vpc_cidr |-> <<10, 2, 0, 0, 16>>, subnet_cidr |-> <<10, 2, 1, 0, 24>>,
                     instance_type |-> "t3.medium", key_name |-> "aws-365-keypair",
                     environment |-> "production"]]

\* lines 46-47: web_servers = {}, environment_details = {}
InitDC ==
    /\ script = "demo_components"
    /\ pc = "dc_loop"
    /\ stack_name = "dev"
    /\ cfg \in Opt("deploy_production", {"true", "false", "yes"})
    /\ osenv = EmptyMap
    /\ azs \in AzLists

\* lines 49-63, one iteration: the loop binds the module variable config to
\* the entry of env_name (locals.config names what config is bound to), the
\* component is constructed, then its details are recorded.  The ssh_command
\* lambda of line 58 reads config['key_name'] when it is called, not here.
CreateServerDC ==
    /\ script = "demo_components" /\ pc = "dc_loop"
    /\ LET servers == IF Has(locals, "servers") THEN locals.servers ELSE <<>>
           details == IF Has(locals, "environment_details")
                      THEN locals.environment_details ELSE EmptyMap
       IN /\ Len(servers) < Len(EnvOrder)
          /\ LET env_name == EnvOrder[Len(servers) + 1]
                 config == environments[env_name]
                 name == <<env_name, "-webserver">>
                 public_ip == Attr(name \o <<"-instance">>, "public_ip")
             IN /\ resources' = resources \o WebServerComponent(name, config, azs[1])
                /\ locals' =
                      Bind(Bind(Bind(locals, "config", env_name),
                                "servers", Append(servers, name)),
                           "environment_details",
                           Bind(details, env_name,
                                [website_url |-> Apply(public_ip, "http-url"),
                                 ssh_command |->
                                     Apply(public_ip, "ssh-command-of-config-key_name"),
                                 vpc_id |-> Attr(name \o <<"-vpc">>, "id"),
                                 instance_id |-> Attr(name \o <<"-instance">>, "id"),
                                 instance_type |-> config.instance_type,
                                 vpc_cidr |-> config.vpc_cidr]))
    /\ Goto("dc_loop")
    /\ UNCHANGED <<inputs, exports>>

\* line 58, the body of the ssh_command lambda of environment e, called by
\* the engine once the instance's public_ip is resolved: at some point after
\* its registration, while the script runs or after it has ended.  It
\* subscripts whatever the module variable config is bound to then; a
\* pulumi.Config object has no __getitem__.
CallbackDC ==
    /\ script = "demo_components" /\ pc # "aborted"
    /\ Has(locals, "environment_details")
    /\ LET called == IF Has(locals, "callbacks") THEN locals.callbacks ELSE EmptyMap
       IN \E e \in DOMAIN locals.environment_details \ DOMAIN called :
             locals' =
                Bind(locals, "callbacks",
                     Bind(called, e,
                          IF locals.config = "pulumi.Config"
                          THEN [ok |-> FALSE, entry |-> locals.config,
                                key_name |-> "TypeError"]
                          ELSE [ok |-> TRUE, entry |-> locals.config,
                                key_name |-> environments[locals.config].key_name]))
    /\ UNCHANGED <<inputs, pc, resources, exports, error>>

\* lines 66-83: the exports after the loop, then config = pulumi.Config() and
\* deploy_prod = config.get_bool("deploy_production") or False
ExportEnvironmentsDC ==
    /\ script = "demo_components" /\ pc = "dc_loop"
    /\ Has(locals, "servers") /\ Len(locals.servers) = Len(EnvOrder)
    /\ IF ~ConfigGetBool(cfg, "deploy_production", FALSE).ok
       THEN /\ exports' = locals.environment_details
            /\ locals' = Bind(locals, "config", "pulumi.Config")
            /\ Fail([kind |-> "ConfigTypeError", key |-> "deploy_production"])
       ELSE LET deploy_prod == ResolveFlag(cfg, "deploy_production", FALSE)
            IN /\ locals' = Bind(Bind(locals, "config", "pulumi.Config"),
                                 "deploy_prod", deploy_prod)
               /\ exports' =
                     IF deploy_prod
                     THEN Bind(locals.environment_details, "production_extras",
                               [monitoring_enabled |-> TRUE, backup_enabled |-> TRUE,
                                multi_az |-> TRUE])
                     ELSE locals.environment_details
               /\ Goto("dc_summary")
    /\ UNCHANGED <<inputs, resources>>

\* lines 85-168: deployment_summary, cost_analysis (whose loop at line 125
\* binds config to each entry of environments in turn, last to production's),
\* quick_access and tagging_strategy; costs are in 1/10000 dollar,
\* round(x, 2) gives cents
SummaryDC ==
    /\ script = "demo_components" /\ pc = "dc_summary"
    /\ LET hourly_costs == ("t3.micro" :> 104) @@ ("t3.small" :> 208)
                           @@ ("t3.medium" :> 416)
           monthly(e) == hourly_costs[environments[e].instance_type] * 24 * 30
           public_ip(k) == Attr(locals.servers[k] \o <<"-instance">>, "public_ip")
       IN exports' =
             exports @@
             [deployment_summary |->
                  [total_environments_deployed |-> Len(EnvOrder),
                   total_resources_created |-> Len(EnvOrder) * 7,
                   deployment_method |-> "Pulumi ComponentResource",
                   environments |->
                       [k \in 1..Len(EnvOrder) |->
                           LET t == environments[EnvOrder[k]].instance_type
                           IN [name |-> EnvOrder[k], instance_type |-> t,
                               vpc_cidr |-> environments[EnvOrder[k]].vpc_cidr,
                               cost_category |->
                                   IF t = "t3.micro" THEN "low"
                                   ELSE IF t = "t3.small" THEN "medium"
                                   ELSE "high"]]],
              cost_analysis |->
                  [e \in DOMAIN environments |->
                      [instance_type |-> environments[e].instance_type,
                       estimated_monthly_cost_usd |-> (monthly(e) + 50) \div 100,
                       cost_category |->
                           IF monthly(e) < 20 * 10000 THEN "low"
                           ELSE IF monthly(e) < 50 * 10000 THEN "medium"
                           ELSE "high"]],
              quick_access |->
                  [k \in 1..Len(locals.servers) |->
                      [website |-> Apply(public_ip(k), "http-url"),
                       health_check |-> Apply(public_ip(k), "curl-url"),
                       ssh_access |-> Apply(public_ip(k), "ssh-command")]],
              tagging_strategy |->
                  [common_tags |->
                       [ManagedBy |-> "Pulumi", Project |-> "WebServer-Demo",
                        Owner |-> "DevOps-Team",
                        DeploymentMethod |-> "ComponentResource"],
                   environment_specific_tags |->
                       [e \in DOMAIN environments |->
                           [Environment |-> environments[e].environment,
                            CostCenter |-> <<"CC-", e>>,
                            InstanceType |-> environments[e].instance_type]]]]
    /\ locals' = Bind(locals, "config", EnvOrder[Len(EnvOrder)])
    /\ Goto("dc_report")
    /\ UNCHANGED <<inputs, resources>>

\* lines 176-195: pulumi.runtime.get_time() is a call into the pulumi package,
\* which is not part of this repository: it returns a time stamp, or the
\* attribute does not exist in the installed package
Timestamps == {1, 2}

ReportDC ==
    /\ script = "demo_components" /\ pc = "dc_report"
    /\ \/ /\ ~sdk.get_time
          /\ Fail([kind |-> "AttributeError", key |-> "pulumi.runtime.get_time"])
          /\ UNCHANGED exports
       \/ \E t \in Timestamps :
             /\ sdk.get_time
             /\ exports' = Bind(exports, "deployment_report",
                                [deployment_timestamp |-> t,
                                 total_environments |-> Len(EnvOrder)])
             /\ Goto("done")
    /\ UNCHANGED <<inputs, locals, resources>>

-----------------------------------------------------------------------------
(* pulumi-presentation/__main__.py *)

InitPM ==
    /\ script = "presentation"
    /\ pc = "pm_declare"
    /\ stack_name = "dev"
    /\ cfg = EmptyMap
    /\ osenv = EmptyMap
    /\ azs \in AzLists

\* lines 19-330: selected_az = azs.names[0], then the seven resources in
\* declaration order; user_script is a plain string literal, nothing is
\* substituted into it
DeclarePM ==
    /\ script = "presentation" /\ pc = "pm_declare"
    /\ locals' = Bind(locals, "selected_az", azs[1])
    /\ resources' =
          <<[type |-> "Vpc", name |-> "mx-pulumi-vpc", refs |-> EmptyMap,
             cidr_block |-> <<10, 0, 0, 0, 16>>,
             tags |-> [Name |-> "mx-pulumi-vpc", Environment |-> "presentation",
                       owner |-> "mx-devops", ManagedBy |-> "Pulumi"]],
            [type |-> "Subnet", name |-> "public-subnet",
             refs |-> [vpc_id |-> "mx-pulumi-vpc"],
             cidr_block |-> <<10, 0, 1, 0, 24>>, availability_zone |-> azs[1],
             tags |-> [Name |-> "Public|Subnet", Environment |-> "presentation",
                       owner |-> "mx-devops"]],
            [type |-> "InternetGateway", name |-> "igw",
             refs |-> [vpc_id |-> "mx-pulumi-vpc"],
             tags |-> [Name |-> "igw", Environment |-> "presentation",
                       owner |-> "mx-devops"]],
            [type |-> "RouteTable", name |-> "public-route-table",
             refs |-> [vpc_id |-> "mx-pulumi-vpc", gateway_id |-> "igw"],
             tags |-> [Name |-> "Public|Route|Table", Environment |-> "presentation",
                       owner |-> "mx-devops"]],
            [type |-> "RouteTableAssociation", name |-> "public-route-table-association",
             refs |-> [subnet_id |-> "public-subnet",
                       route_table_id |-> "public-route-table"],
             tags |-> EmptyMap],
            [type |-> "SecurityGroup", name |-> "public-security-group",
             refs |-> [vpc_id |-> "mx-pulumi-vpc"],
             ingress |->
                 <<[from_port |-> 80, to_port |-> 80, protocol |-> "tcp",
                    cidr_blocks |-> <<"0.0.0.0/0">>, description |-> "HTTP access"],
                   [from_port |-> 443, to_port |-> 443, protocol |-> "tcp",
                    cidr_blocks |-> <<"0.0.0.0/0">>, description |-> "HTTPS access"],
                   [from_port |-> 22, to_port |-> 22, protocol |-> "tcp",
                    cidr_blocks |-> <<"0.0.0.0/0">>,
                    description |-> "SSH access for demo"]>>,
             tags |-> [Name |-> "Public|Security|Group", Environment |-> "presentation",
                       owner |-> "mx-devops"]],
            [type |-> "Instance", name |-> "webserver-instance",
             refs |-> [subnet_id |-> "public-subnet",
                       security_groups |-> <<"public-security-group">>],
             instance_type |-> "t3.micro", key_name |-> "aws-365-keypair",
             user_data |-> [deferred |-> FALSE, attrs |-> <<>>, subst |-> EmptyMap],
             tags |-> [Name |-> "Pulumi|Demo|Instance", Environment |-> "presentation",
                       owner |-> "mx-devops", ManagedBy |-> "Pulumi",
                       Purpose |-> "Demo"]]>>
    /\ Goto("pm_export")
    /\ UNCHANGED <<inputs, exports>>

\* lines 333-347
ExportPM ==
    /\ script = "presentation" /\ pc = "pm_export"
    /\ exports' =
          [instance_ip |-> Attr("webserver-instance", "public_ip"),
           website_url |-> Apply(Attr("webserver-instance", "public_ip"), "http-url"),
           ssh_command |-> Apply(Attr("webserver-instance", "public_ip"), "ssh-command"),
           infrastructure_details |->
               [vpc_id |-> Attr("mx-pulumi-vpc", "id"),
                vpc_cidr |-> <<10, 0, 0, 0, 16>>,
                subnet_id |-> Attr("public-subnet", "id"),
                subnet_cidr |-> <<10, 0, 1, 0, 24>>,
                security_group_id |-> Attr("public-security-group", "id"),
                route_table_id |-> Attr("public-route-table", "id"),
                igw_id |-> Attr("igw", "id"),
                availability_zone |-> locals.selected_az]]
    /\ Goto("pm_demo_info")
    /\ UNCHANGED <<inputs, locals, resources>>

\* lines 350-365: pulumi.runtime.get_time() is a call into the pulumi
\* package, as in demo_components.py
DemoInfoPM ==
    /\ script = "presentation" /\ pc = "pm_demo_info"
    /\ \/ /\ ~sdk.get_time
          /\ Fail([kind |-> "AttributeError", key |-> "pulumi.runtime.get_time"])
          /\ UNCHANGED exports
       \/ \E t \in Timestamps :
             /\ sdk.get_time
             /\ LET public_ip == Attr("webserver-instance", "public_ip")
                IN exports' =
                      Bind(Bind(exports, "demo_info",
                                [ami_id |-> "ami", region |-> "region",
                                 account_id |-> "account",
                                 deployment_time |-> <<"Deployed at: ", t>>,
                                 pulumi_version |-> "3.x", language |-> "Python"]),
                           "quick_commands",
                           [test_website |-> Apply(public_ip, "curl-url"),
                            ssh_access |-> Apply(public_ip, "ssh-command"),
                            check_status |-> Apply(public_ip, "curl-head"),
                            view_logs |-> "sudo tail -f /var/log/httpd/access_log"])
             /\ Goto("done")
    /\ UNCHANGED <<inputs, locals, resources>>

-----------------------------------------------------------------------------
(* modularity/__main__.py and modularity/modules *)

InitMod ==
    /\ script = "modularity"
    /\ pc = "m_network"
    /\ stack_name \in StackNames
    /\ cfg = EmptyMap
    /\ osenv = EmptyMap
    /\ azs = <<<<"az", 1>>>>

\* compute.py lines 26-124
create_web_server(name, subnet_id, security_group_id) ==
    [type |-> "Instance", name |-> name \o <<"-instance">>,
     refs |-> [subnet_id |-> subnet_id,
               vpc_security_group_ids |-> <<security_group_id>>],
     instance_type |-> "t2.micro",
     user_data |-> [deferred |-> FALSE, attrs |-> <<>>, subst |-> [name |-> name]],
     tags |-> [Name |-> name, Type |-> "WebServer"]]

MultiInstanceNameShared(base_name, i) == base_name

MultiInstanceNameByRun(base_name, i) ==
    base_name \o <<"-", Str(i + 1 + IF prev.ran THEN 1 ELSE 0)>>

\* compute.py line 199, f"{base_name}-{i+1}" in create_multiple_instances
MultiInstanceName(base_name, i) == base_name \o <<"-", Str(i + 1)>>

create_multiple_instances_one_subnet(base_name, count, subnet_ids, security_group_id) ==
    [k \in 1..count |->
        create_web_server(MultiInstanceName(base_name, k - 1), subnet_ids[1],
                          security_group_id)]

create_multiple_instances_short(base_name, count, subnet_ids, security_group_id) ==
    [k \in 1..(count - 1) |->
        create_web_server(MultiInstanceName(base_name, k - 1),
                          subnet_ids[((k - 1) % Len(subnet_ids)) + 1],
                          security_group_id)]

\* compute.py lines 179-210: for i in range(count), k = i + 1; the list
\* returned, whose instances are declared in this order
create_multiple_instances(base_name, count, subnet_ids, security_group_id) ==
    [k \in 1..count |->
        create_web_server(MultiInstanceName(base_name, k - 1),
                          subnet_ids[((k - 1) % Len(subnet_ids)) + 1],
                          security_group_id)]

\* a caller of create_multiple_instances other than modularity/__main__.py:
\* any count >= 0 and any non-empty list of subnet ids
SubnetIdLists ==
    UNION {[1..n -> {<<"subnet-a">>, <<"subnet-b">>}] : n \in 1..MaxSubnetIds}

InitCompute ==
    /\ script = "compute"
    /\ pc = "cmi_call"
    /\ stack_name = "dev"
    /\ cfg = EmptyMap
    /\ osenv = EmptyMap
    /\ azs = <<<<"az", 1>>>>

CallMultiple ==
    /\ script = "compute" /\ pc = "cmi_call"
    /\ \E count \in 0..MaxCount, subnet_ids \in SubnetIdLists :
          /\ locals' = [base_name |-> <<"web">>, count |-> count,
                        subnet_ids |-> subnet_ids, security_group_id |-> <<"sg">>]
          /\ resources' = create_multiple_instances(<<"web">>, count, subnet_ids,
                                                    <<"sg">>)
    /\ Goto("done")
    /\ UNCHANGED <<inputs, exports>>

\* __main__.py lines 20-57: project_name, then the calls into
\* modules/networking.py (create_vpc, create_internet_gateway,
\* create_public_subnet, create_private_subnet, setup_public_routing) and
\* modules/security_groups.py (create_web_security_group,
\* create_database_security_group), each declaring what its body declares;
\* count is the number of web servers the branch of lines 63-136 asks for
NetworkMod ==
    /\ script = "modularity" /\ pc = "m_network"
    /\ LET p == <<"simple-demo-", stack_name>>
           n(role) == p \o <<role>>
           subnet(name, cidr, public) ==
               [type |-> "Subnet", name |-> name, refs |-> [vpc_id |-> n("-vpc")],
                cidr_block |-> cidr, availability_zone |-> "us-east-1a",
                map_public_ip_on_launch |-> public,
                tags |-> [Name |-> name,
                          Type |-> IF public THEN "Public" ELSE "Private"]]
           rule(port, cidrs) ==
               [protocol |-> "tcp", from_port |-> port, to_port |-> port,
                cidr_blocks |-> cidrs]
       IN /\ resources' =
                 <<[type |-> "Vpc", name |-> n("-vpc"), refs |-> EmptyMap,
                    cidr_block |-> <<10, 0, 0, 0, 16>>, tags |-> [Name |-> n("-vpc")]],
                   [type |-> "InternetGateway", name |-> n("-igw"),
                    refs |-> [vpc_id |-> n("-vpc")], tags |-> [Name |-> n("-igw")]],
                   subnet(p \o <<"-web", "-public">>, <<10, 0, 1, 0, 24>>, TRUE),
                   subnet(p \o <<"-db", "-private">>, <<10, 0, 2, 0, 24>>, FALSE),
                   [type |-> "RouteTable", name |-> n("-public-rt"),
                    refs |-> [vpc_id |-> n("-vpc")], tags |-> [Name |-> n("-public-rt")]],
                   [type |-> "Route", name |-> n("-internet-route"),
                    refs |-> [route_table_id |-> n("-public-rt"),
                              gateway_id |-> n("-igw")],
                    tags |-> EmptyMap],
                   [type |-> "RouteTableAssociation", name |-> n("-public-rta"),
                    refs |-> [subnet_id |-> p \o <<"-web", "-public">>,
                              route_table_id |-> n("-public-rt")],
                    tags |-> EmptyMap],
                   [type |-> "SecurityGroup", name |-> n("-web-sg"),
                    refs |-> [vpc_id |-> n("-vpc")],
                    ingress |-> <<rule(80, <<"0.0.0.0/0">>), rule(443, <<"0.0.0.0/0">>),
                                  rule(22, <<"0.0.0.0/0">>)>>,
                    tags |-> [Name |-> n("-web-sg"), Type |-> "Web"]],
                   [type |-> "SecurityGroup", name |-> n("-db-sg"),
                    refs |-> [vpc_id |-> n("-vpc"), web_sg_id |-> n("-web-sg")],
                    ingress |-> <<rule(3306, <<>>), rule(22, <<"0.0.0.0/0">>)>>,
                    tags |-> [Name |-> n("-db-sg"), Type |-> "Database"]]>>
          /\ locals' =
                 [project_name |-> p, vpc |-> n("-vpc"),
                  web_subnet |-> p \o <<"-web", "-public">>,
                  db_subnet |-> p \o <<"-db", "-private">>,
                  web_sg |-> n("-web-sg"), db_sg |-> n("-db-sg"),
                  instances |-> <<>>,
                  count |-> IF stack_name = "staging" THEN 2
                            ELSE IF stack_name = "prod" THEN 3 ELSE 1]
    /\ Goto(IF stack_name \in {"staging", "prod"} THEN "m_multiple" ELSE "m_single")
    /\ UNCHANGED <<inputs, exports>>

\* __main__.py lines 63-75 and 125-136, then the common exports of lines
\* 139-148
SingleServerMod ==
    /\ script = "modularity" /\ pc = "m_single"
    /\ LET name == locals.project_name \o <<"-web">>
       IN /\ resources' = Declare(resources,
                                  create_web_server(name, locals.web_subnet,
                                                    locals.web_sg))
          /\ exports' = [web_url |-> Apply(Attr(name \o <<"-instance">>, "public_ip"),
                                           "http-url"),
                         server_count |-> 1,
                         vpc_id |-> Attr(locals.vpc, "id"),
                         stack_name |-> stack_name,
                         project_name |-> locals.project_name]
    /\ Goto("done")
    /\ UNCHANGED <<inputs, locals>>

\* __main__.py lines 81-86 and 105-110: the call
\* create_multiple_instances(f"{project_name}-web", count, [web_subnet.id],
\* web_sg.id)
MultipleInstancesMod ==
    /\ script = "modularity" /\ pc = "m_multiple"
    /\ LET made == create_multiple_instances(locals.project_name \o <<"-web">>,
                                             locals.count, <<locals.web_subnet>>,
                                             locals.web_sg)
       IN /\ resources' = resources \o made
          /\ locals' = Bind(locals, "instances", [k \in 1..Len(made) |-> made[k].name])
    /\ Goto("m_database")
    /\ UNCHANGED <<inputs, exports>>

\* __main__.py lines 89-99 and 113-123: create_database_server (compute.py
\* lines 127-176) and the exports of the branch, then the common exports of
\* lines 139-148
DatabaseMod ==
    /\ script = "modularity" /\ pc = "m_database"
    /\ LET name == locals.project_name \o <<"-db">>
       IN /\ resources' =
                 Declare(resources,
                         [type |-> "Instance", name |-> name \o <<"-instance">>,
                          refs |-> [subnet_id |-> locals.db_subnet,
                                    vpc_security_group_ids |-> <<locals.db_sg>>],
                          instance_type |-> "t2.micro",
                          user_data |-> [deferred |-> FALSE, attrs |-> <<>>,
                                         subst |-> [name |-> name]],
                          tags |-> [Name |-> name, Type |-> "Database"]])
          /\ exports' =
                 [web_urls |-> [k \in 1..Len(locals.instances) |->
                                   Apply(Attr(locals.instances[k], "public_ip"),
                                         "http-url")],
                  database_private_ip |-> Attr(name \o <<"-instance">>, "private_ip"),
                  server_count |-> Len(locals.instances),
                  vpc_id |-> Attr(locals.vpc, "id"),
                  stack_name |-> stack_name,
                  project_name |-> locals.project_name]
    /\ Goto("done")
    /\ UNCHANGED <<inputs, locals>>

-----------------------------------------------------------------------------
(* webserver/__main__.py *)

InitWS ==
    /\ script = "webserver"
    /\ pc = "ws_network"
    /\ stack_name = "dev"
    /\ cfg = EmptyMap
    /\ osenv = EmptyMap
    /\ azs \in AzLists

\* lines 6-83: selected_az, vpc, public_subnet, igw, public_route_table and
\* public_route_table_association, whose constructor is called with tags=
NetworkWS ==
    /\ script = "webserver" /\ pc = "ws_network"
    /\ locals' = Bind(locals, "selected_az", azs[1])
    /\ LET tags(name) == [Name |-> name, Environment |-> "dev", owner |-> "mx-devops"]
           declared ==
               <<[type |-> "Vpc", name |-> "mx-pulumi-vpc", refs |-> EmptyMap,
                  cidr_block |-> <<10, 0, 0, 0, 16>>, tags |-> tags("mx-pulumi-vpc")],
                 [type |-> "Subnet", name |-> "public-subnet",
                  refs |-> [vpc_id |-> "mx-pulumi-vpc"],
                  cidr_block |-> <<10, 0, 1, 0, 24>>, availability_zone |-> azs[1],
                  tags |-> tags("Public|Subnet")],
                 [type |-> "InternetGateway", name |-> "igw",
                  refs |-> [vpc_id |-> "mx-pulumi-vpc"], tags |-> tags("igw")],
                 [type |-> "RouteTable", name |-> "public-route-table",
                  refs |-> [vpc_id |-> "mx-pulumi-vpc", gateway_id |-> "igw"],
                  tags |-> tags("Public|Route|Table")]>>
       IN IF sdk.extra_kwargs
          THEN /\ resources' =
                     Declare(declared,
                             [type |-> "RouteTableAssociation",
                              name |-> "public-route-table-association",
                              refs |-> [subnet_id |-> "public-subnet",
                                        route_table_id |-> "public-route-table"],
                              tags |-> tags("public-route-table-association")])
               /\ Goto("ws_instance")
          ELSE /\ resources' = declared
               /\ Fail([kind |-> "TypeError", key |-> "tags"])
    /\ UNCHANGED <<inputs, exports>>

\* lines 85-216: security_group, ec2_instance (user_data is a plain string
\* literal) and the exports
InstanceWS ==
    /\ script = "webserver" /\ pc = "ws_instance"
    /\ resources' =
          resources
          \o <<[type |-> "SecurityGroup", name |-> "public-security-group",
                refs |-> [vpc_id |-> "mx-pulumi-vpc"],
                ingress |-> <<[from_port |-> 80, to_port |-> 80, protocol |-> "tcp",
                               cidr_blocks |-> <<"0.0.0.0/0">>]>>,
                tags |-> [Name |-> "Public|Security|Group", Environment |-> "dev",
                          owner |-> "mx-devops"]],
               [type |-> "Instance", name |-> "webserver-instance",
                refs |-> [subnet_id |-> "public-subnet",
                          security_group_ids |-> <<"public-security-group">>],
                instance_type |-> "t2.micro",
                user_data |-> [deferred |-> FALSE, attrs |-> <<>>, subst |-> EmptyMap],
                tags |-> [Name |-> "Public|Instance", Environment |-> "dev",
                          owner |-> "mx-devops"]]>>
    /\ exports' = [instance_ip |-> Attr("webserver-instance", "public_ip"),
                   security_group_id |-> Attr("public-security-group", "id"),
                   vpc_id |-> Attr("mx-pulumi-vpc", "id"),
                   subnet_id |-> Attr("public-subnet", "id"),
                   route_table_id |-> Attr("public-route-table", "id"),
                   igw_id |-> Attr("igw", "id"),
                   instance_ami |-> "ami"]
    /\ Goto("done")
    /\ UNCHANGED <<inputs, locals>>

-----------------------------------------------------------------------------
(* A second run of the same script after one setting was changed *)

NoRun == [ran |-> FALSE]

Finished == pc \in {"done", "aborted"}

\* the first run as the second run can be compared with it, and the fresh
\* state the second run starts in
Rerun(change, c, start) ==
    /\ ~prev.ran
    /\ Finished
    /\ prev' = [ran |-> TRUE, change |-> change, cfg |-> cfg, pc |-> pc,
                locals |-> locals, resources |-> resources, exports |-> exports,
                error |-> error]
    /\ cfg' = c
    /\ pc' = start
    /\ locals' = EmptyMap
    /\ resources' = <<>>
    /\ exports' = EmptyMap
    /\ error' = NoError
    /\ UNCHANGED <<script, stack_name, osenv, azs, sdk>>

Without(c, keys) == [k \in DOMAIN c \ keys |-> c[k]]

\* pulumi config set --secret db_password / api_key, or pulumi config rm
RerunSecrets03 ==
    /\ script = "config03" /\ pc = "done"
    /\ \E e \in Opt("db_password", {"pw1", "pw2"}), f \in Opt("api_key", {"k1", "k2"}) :
          LET c == e @@ f @@ Without(cfg, {"db_password", "api_key"})
          IN c # cfg /\ Rerun("secrets", c, "c03_app_name")

\* pulumi config set enable_https true
RerunHttps03 ==
    /\ script = "config03" /\ pc = "done"
    /\ ~locals.enable_https
    /\ Rerun("flag", ("enable_https" :> "true") @@ cfg, "c03_app_name")

\* pulumi config set deployment_version <a higher version>
UpgradeTargets ==
    {<<"1", ".", "0">>, <<"1", ".", "5">>, <<"2", ".", "0">>, <<"2", ".", "5">>,
     <<"3", ".", "0">>}

FloatLess(s, t) == FloatOf(s)[1] * FloatOf(t)[2] < FloatOf(t)[1] * FloatOf(s)[2]

RerunVersion05 ==
    /\ script = "preview05" /\ pc = "done"
    /\ \E v \in UpgradeTargets :
          /\ FloatLess(locals.deployment_version, v)
          /\ Rerun("flag", ("deployment_version" :> v) @@ cfg, "p05_config")

\* pulumi config set enable_monitoring true / instance_count <more than 2>
RerunMonitoringAdv ==
    /\ script = "advanced"
    /\ Has(cfg, "enable_monitoring") /\ cfg["enable_monitoring"] = "false"
    /\ Has(locals, "base_security_rules")
    /\ Rerun("flag", ("enable_monitoring" :> "true") @@ cfg, "adv_config")

RerunInstanceCountAdv ==
    /\ script = "advanced"
    /\ Has(locals, "base_security_rules")
    /\ Has(cfg, "instance_count") /\ DigitsVal(cfg["instance_count"]) <= 2
    /\ Rerun("flag", ("instance_count" :> <<"1", "0">>) @@ cfg, "adv_config")

\* pulumi up once more, nothing changed: the first statement of each script
\* whose second run is followed (the component, create_multiple_instances on
\* its own and demo_components.py are followed for one run)
StartPc ==
    [stacks01 |-> "s01_config", resources02 |-> "r02_vpc", config03 |-> "c03_app_name",
     preview05 |-> "p05_config", advanced |-> "adv_config",
     presentation |-> "pm_declare",
     modularity |-> "m_network", webserver |-> "ws_network",
     state04 |-> "s04_declare"]

RerunSame ==
    /\ script \in DOMAIN StartPc
    /\ Rerun("none", cfg, StartPc[script])

NextRerun ==
    \/ RerunSame
    \/ RerunSecrets03 \/ RerunHttps03 \/ RerunVersion05
    \/ RerunMonitoringAdv \/ RerunInstanceCountAdv

-----------------------------------------------------------------------------
(* The claims *)

SgIngress(rs) ==
    rs[CHOOSE i \in 1..Len(rs) : rs[i].type = "SecurityGroup"].ingress

HasSg(rs) == \E i \in 1..Len(rs) : rs[i].type = "SecurityGroup"

\* C1: in 03_configuration_demo.py a run whose configuration store lacks the
\* required app_name (or the required secret db_password) aborts with an
\* error naming the key, and declares no resource.
C1_MissingRequiredAborts ==
    script = "config03" =>
        /\ (~Has(cfg, "app_name") /\ pc # "c03_app_name") =>
              /\ pc = "aborted"
              /\ error.kind = "ConfigMissingError" /\ error.key = "app_name"
              /\ resources = <<>>
        /\ (~Has(cfg, "db_password") /\ Has(locals, "db_password")) =>
              /\ pc = "aborted"
              /\ error.kind = "ConfigMissingError" /\ error.key = "db_password"
              /\ resources = <<>>

\* C2: in 05_preview_update_demo.py a run that fails because of
\* deployment_version has declared no resource: a finished run declared
\* its full graph or nothing.
C2_FailureBeforeDeclaration ==
    (script = "preview05" /\ pc = "aborted") => resources = <<>>

AllowedEnvironments == {"development", "staging", "production", "demo"}

C5_SecretNonLeakage ==
    (script = "config03" /\ pc = "done") =>
        /\ exports.secrets_configured.db_password_configured = TRUE
        /\ exports.secrets_configured.api_key_configured = TRUE
        /\ exports.secrets_configured.note
              = "Secret values are encrypted and not shown in outputs"
        /\ (prev.ran /\ prev.change = "secrets") => exports = prev.exports

C5_Witness ==
    /\ script = "config03" /\ pc = "done"
    /\ prev.ran /\ prev.change = "secrets"
    /\ locals.db_password.val # prev.locals.db_password.val
    /\ locals.api_key.val # prev.locals.api_key.val

\* C6: in 01_stacks_demo.py dev, staging and prod resolve to their own
\* profile, every other stack name to the dev profile, and the resolved
\* instance_count is within 1..10.
C6_ProfileResolution ==
    (script = "stacks01" /\ Has(locals, "config")) =>
        /\ stack_name = "dev" =>
              (locals.config.environment = "development"
                  /\ locals.config.instance_count = 1)
        /\ stack_name = "staging" =>
              (locals.config.environment = "staging"
                  /\ locals.config.instance_count = 2)
        /\ stack_name = "prod" =>
              (locals.config.environment = "production"
                  /\ locals.config.instance_count = 3)
        /\ stack_name \notin {"dev", "staging", "prod"} =>
              locals.config = stack_configs["dev"]
        /\ locals.config.instance_count >= 1
        /\ locals.config.instance_count <= 10

C6_Witness ==
    script = "stacks01" /\ stack_name = "qa" /\ Has(locals, "config")

\* C7: a finished run of 01_stacks_demo.py or 03_configuration_demo.py with
\* resolved instance count N declared exactly N instances, each in one
\* declared subnet and attached to one declared security group.
NamesOf(type) == {resources[i].name : i \in Declared(type)}

ResolvedCount ==
    IF script = "stacks01" THEN locals.config.instance_count
    ELSE locals.instance_count

C7_InstanceCount ==
    (script \in {"stacks01", "config03"} /\ pc = "done") =>
        /\ Cardinality(Declared("Instance")) = ResolvedCount
        /\ \A i \in Declared("Instance") :
              /\ resources[i].refs.subnet_id \in NamesOf("Subnet")
              /\ Len(resources[i].refs.vpc_security_group_ids) = 1
              /\ resources[i].refs.vpc_security_group_ids[1]
                    \in NamesOf("SecurityGroup")

C7_Witness ==
    /\ script = "config03" /\ pc = "done"
    /\ locals.instance_count = 10
    /\ Cardinality(Declared("Instance")) = 10

\* C8, as claimed: a run after one flag was raised has an ingress rule list
\* that strictly extends the list of the run before.
C8_FlagStrictlyExtends ==
    (prev.ran /\ prev.change = "flag" /\ HasSg(resources)) =>
        /\ IsPrefix(SgIngress(prev.resources), SgIngress(resources))
        /\ Len(SgIngress(prev.resources)) < Len(SgIngress(resources))

\* C8, amended: a run after one flag was raised has an ingress rule list
\* that starts with the whole list of the run before, unchanged; it is
\* equal to it or longer.
C8_FlagExtends ==
    (prev.ran /\ prev.change = "flag" /\ HasSg(resources)) =>
        IsPrefix(SgIngress(prev.resources), SgIngress(resources))

C8_Witness ==
    /\ script = "preview05" /\ prev.ran /\ prev.change = "flag" /\ HasSg(resources)
    /\ Len(SgIngress(prev.resources)) = 2
    /\ Len(SgIngress(resources)) = 3

\* C9: within a run every step leaves the ingress rule list of
\* 03_configuration_demo.py, 05_preview_update_demo.py and advanced_demo.py
\* an extension of what it was: no rule is removed, moved or changed.
RuleListNames == {"sg_ingress", "base_ingress", "base_security_rules"}

C9_Step ==
    \A n \in RuleListNames :
        (Has(locals, n) /\ Has(locals', n)) => IsPrefix(locals[n], locals'[n])

C9_AppendOnly == [][C9_Step]_vars

C9_Witness ==
    /\ script = "advanced" /\ Has(locals, "base_security_rules")
    /\ Len(locals.base_security_rules) = 6

\* C10: in 05_preview_update_demo.py the run at deployment_version "2.0" that
\* follows a run at "1.0" has the rules of that run unchanged and exactly
\* one more, the SSH rule on port 22.
C10_UpgradeAddsSsh ==
    (/\ script = "preview05" /\ prev.ran /\ HasSg(resources)
     /\ prev.locals.deployment_version = <<"1", ".", "0">>
     /\ locals.deployment_version = <<"2", ".", "0">>) =>
        LET before == SgIngress(prev.resources)
            after == SgIngress(resources)
        IN /\ Len(after) = Len(before) + 1
           /\ IsPrefix(before, after)
           /\ after[Len(after)].from_port = 22
           /\ after[Len(after)].to_port = 22
           /\ after[Len(after)].protocol = "tcp"

C10_Witness ==
    /\ script = "preview05" /\ prev.ran /\ HasSg(resources)
    /\ prev.locals.deployment_version = <<"1", ".", "0">>
    /\ locals.deployment_version = <<"2", ".", "0">>

\* The set of ports an ingress rule list admits.
PortsOf(rules) ==
    UNION {rules[k].from_port .. rules[k].to_port : k \in 1..Len(rules)}

\* C11: the run of 01_stacks_demo.py with stack dev declares exactly one
\* instance, of type t2.micro, and its security group admits inbound
\* traffic on port 80 only.
C11_DevScenario ==
    (script = "stacks01" /\ stack_name = "dev" /\ pc = "done") =>
        /\ Cardinality(Declared("Instance")) = 1
        /\ \A i \in Declared("Instance") : resources[i].instance_type = "t2.micro"
        /\ PortsOf(SgIngress(resources)) = {80}

\* C12: the run of 01_stacks_demo.py with stack staging, whose profile has
\* enable_monitoring on, declares exactly two instances and a security group
\* whose ingress rules are port 80, port 22 and at least one further rule
\* for the monitoring ports.
C12_StagingScenario ==
    (script = "stacks01" /\ stack_name = "staging" /\ pc = "done") =>
        /\ locals.config.enable_monitoring
        /\ Cardinality(Declared("Instance")) = 2
        /\ {80, 22} \subseteq PortsOf(SgIngress(resources))
        /\ PortsOf(SgIngress(resources)) \ {80, 22} # {}

\* A CIDR block <<a, b, c, d, n>> is the range of 2^(32-n) addresses that
\* starts at a.b.c.d.
RECURSIVE Pow2(_)
Pow2(n) == IF n = 0 THEN 1 ELSE 2 * Pow2(n - 1)

CidrFirst(c) == ((c[1] * 256 + c[2]) * 256 + c[3]) * 256 + c[4]

CidrSize(c) == Pow2(32 - c[5])

StrictSubRange(sub, net) ==
    /\ sub[5] > net[5]
    /\ CidrFirst(net) <= CidrFirst(sub)
    /\ CidrFirst(sub) + CidrSize(sub) <= CidrFirst(net) + CidrSize(net)

\* C13: in advanced_demo.py, 02_resources_demo.py and WebServerComponent
\* (called with any args mapping, and as demo_components.py calls it) the
\* CIDR of every declared subnet is a strict sub-range of the CIDR of the VPC
\* the subnet is declared in.
C13_SubnetInsideVpc ==
    script \in {"advanced", "resources02", "component", "demo_components"} =>
        \A i \in Declared("Subnet") : \A j \in Declared("Vpc") :
            resources[j].name = resources[i].refs.vpc_id =>
                StrictSubRange(resources[i].cidr_block, resources[j].cidr_block)

\* C14: every taggable resource declared by pulumi-presentation/__main__.py
\* carries the tags Name, Environment, owner and ManagedBy.
RequiredTags == {"Name", "Environment", "owner", "ManagedBy"}

C14_RequiredTags ==
    script = "presentation" =>
        \A i \in 1..Len(resources) :
            resources[i].type # "RouteTableAssociation" =>
                RequiredTags \subseteq DOMAIN resources[i].tags

\* An ingress rule that admits TCP port 22 from every address.
SshOpenToWorld(rule) ==
    /\ rule.protocol = "tcp"
    /\ 22 \in rule.from_port .. rule.to_port
    /\ \E k \in 1..Len(rule.cidr_blocks) : rule.cidr_blocks[k] = "0.0.0.0/0"

\* the environment a security group is declared for
EnvironmentOfSg(i) ==
    IF script = "stacks01" THEN locals.config.environment
    ELSE IF Has(resources[i].tags, "Environment") THEN resources[i].tags.Environment
    ELSE "none"

\* C15: no security group declared for the production environment (by
\* advanced_demo.py, by WebServerComponent, by 01_stacks_demo.py with stack
\* prod) has an ingress rule admitting TCP port 22 from 0.0.0.0/0.
C15_NoOpenSshInProduction ==
    script \in {"advanced", "component", "demo_components", "stacks01"} =>
        \A i \in Declared("SecurityGroup") :
            EnvironmentOfSg(i) = "production" =>
                \A k \in 1..Len(resources[i].ingress) :
                    ~SshOpenToWorld(resources[i].ingress[k])

\* C16: in advanced_demo.py a value present in the configuration store is
\* the resolved parameter, whatever it is (0 and false included); the
\* hard-coded default is used only when the key is absent.
FlagDefaultsAdv ==
    [enable_monitoring |-> TRUE, enable_backup |-> FALSE, cost_optimization |-> TRUE]

C16_StoredValueWins ==
    (script = "advanced" /\ Has(locals, "cost_optimization")) =>
        /\ locals.instance_count
              = IF Has(cfg, "instance_count") THEN DigitsVal(cfg["instance_count"]) ELSE 3
        /\ \A k \in DOMAIN FlagDefaultsAdv :
              locals[k] = IF Has(cfg, k) THEN cfg[k] = "true" ELSE FlagDefaultsAdv[k]

\* C17: advanced_demo.py run with environment dev, staging or production, an
\* instance_count within 1..10 and at least one availability zone does not
\* raise: it never stops on an error.
C17_RunsToCompletion ==
    (/\ script = "advanced" /\ Has(locals, "instance_count")
     /\ locals.environment \in {"dev", "staging", "production"}
     /\ locals.instance_count \in 1..10
     /\ Len(azs) >= 1) =>
        pc # "aborted"

\* the logical name and the tag set of every declared resource, in
\* declaration order
NamesAndTags(rs) == [i \in 1..Len(rs) |-> <<rs[i].name, rs[i].tags>>]

C19_PayloadUsesResolvedValues ==
    \A i \in Declared("Instance") :
        ~resources[i].user_data.deferred => resources[i].user_data.attrs = <<>>

\* the exported values of 01_stacks_demo.py, 05_preview_update_demo.py and
\* pulumi-presentation/__main__.py that can come from a resource attribute
ExportedValues ==
    CASE script = "stacks01" -> exports.instance_urls \o exports.ssh_commands
      [] script = "preview05" ->
            <<exports.demo_access.instance_url, exports.demo_access.ssh_command,
              exports.demo_access.s3_bucket>>
      [] script = "presentation" ->
            <<exports.instance_ip, exports.website_url, exports.ssh_command,
              exports.infrastructure_details.vpc_id,
              exports.infrastructure_details.subnet_id,
              exports.infrastructure_details.security_group_id,
              exports.infrastructure_details.route_table_id,
              exports.infrastructure_details.igw_id>>
            \o (IF Has(exports, "quick_commands")
                THEN <<exports.quick_commands.test_website,
                       exports.quick_commands.ssh_access,
                       exports.quick_commands.check_status>>
                ELSE <<>>)
      [] OTHER -> <<>>

\* C20: every exported value that comes from a resource attribute (it is
\* "of" a resource, or of a value that is) is a deferred value or a
\* transform applied to one, never the result of reading the attribute
\* while the program runs.
C20_ExportsAreDeferred ==
    exports # EmptyMap =>
        \A k \in 1..Len(ExportedValues) :
            Has(ExportedValues[k], "of") => ExportedValues[k].deferred

C20_Witness ==
    /\ script = "preview05" /\ pc = "done"
    /\ FloatGE(locals.deployment_version, 2)
    /\ exports.demo_access.ssh_command.transform = "ssh-command"
    /\ exports.demo_access.s3_bucket.attr = "id"

\* C21: create_multiple_instances(base_name, count, subnet_ids,
\* security_group_id) returns exactly count instances, for every count >= 0
\* and every non-empty subnet_ids; the i-th one (from 1) is named
\* base_name-i, is placed in subnet_ids[(i-1) mod len(subnet_ids)] and is
\* attached to security_group_id.
C21_MultipleInstances ==
    (script = "compute" /\ pc = "done") =>
        /\ Len(resources) = locals.count
        /\ \A i \in 1..Len(resources) :
              LET name == locals.base_name \o <<"-", Str(i)>>
                  n == Len(locals.subnet_ids)
              IN /\ resources[i].type = "Instance"
                 /\ resources[i].tags.Name = name
                 /\ resources[i].name = name \o <<"-instance">>
                 /\ resources[i].refs.subnet_id = locals.subnet_ids[((i - 1) % n) + 1]
                 /\ resources[i].refs.vpc_security_group_ids =
                       <<locals.security_group_id>>

C21_Witness ==
    /\ script = "compute" /\ pc = "done"
    /\ locals.count = 3
    /\ locals.subnet_ids = <<<<"subnet-a">>, <<"subnet-b">>>>
    /\ resources[3].refs.subnet_id = <<"subnet-a">>

\* the type of resource each reference key points to
RefType ==
    [vpc_id |-> "Vpc", subnet_id |-> "Subnet", gateway_id |-> "InternetGateway",
     route_table_id |-> "RouteTable", bucket |-> "Bucket",
     web_sg_id |-> "SecurityGroup", vpc_security_group_ids |-> "SecurityGroup",
     security_groups |-> "SecurityGroup", security_group_ids |-> "SecurityGroup"]

\* the names a resource refers to under one key: the security group keys
\* hold a list of them
RefTargets(r, k) ==
    IF k \in {"vpc_security_group_ids", "security_groups", "security_group_ids"}
    THEN {r.refs[k][j] : j \in 1..Len(r.refs[k])}
    ELSE {r.refs[k]}

\* C22: in every script a resource that references another resource's
\* identifier is declared at a later step than the resource it references:
\* every reference of the i-th declared resource names a resource (of the
\* type the key asks for) declared before it, so the declaration order is a
\* topological order of the reference graph and the graph has no cycle.
C22_DeclaredAfterReferenced ==
    script # "compute" =>
        \A i \in 1..Len(resources) :
            \A k \in DOMAIN resources[i].refs :
                \A x \in RefTargets(resources[i], k) :
                    \E j \in 1..(i - 1) :
                        /\ resources[j].type = RefType[k]
                        /\ resources[j].name = x

C22_Witness ==
    /\ script = "webserver" /\ pc = "done"
    /\ Len(resources) = 7
    /\ resources[7].refs.subnet_id = resources[2].name
    /\ resources[5].refs.route_table_id = resources[4].name

\* the profile table of the claim, written out
ProfileOf(env) ==
    IF env = "staging"
    THEN [instance_type |-> "t3.small", min_size |-> 2, max_size |-> 4,
          enable_detailed_monitoring |-> TRUE, backup_retention |-> 14,
          multi_az |-> TRUE, allowed_cidr |-> "10.0.0.0/8"]
    ELSE IF env = "production"
    THEN [instance_type |-> "t3.medium", min_size |-> 3, max_size |-> 10,
          enable_detailed_monitoring |-> TRUE, backup_retention |-> 30,
          multi_az |-> TRUE, allowed_cidr |-> "10.0.0.0/8"]
    ELSE [instance_type |-> "t3.micro", min_size |-> 1, max_size |-> 2,
          enable_detailed_monitoring |-> FALSE, backup_retention |-> 7,
          multi_az |-> FALSE, allowed_cidr |-> "0.0.0.0/0"]

OneClassLower(t) ==
    CASE t = "t3.medium" -> "t3.small"
      [] t = "t3.small" -> "t3.micro"
      [] OTHER -> t

\* C23: get_environment_config(env) returns the dev profile for every env
\* other than dev, staging, production; with cost optimization on and env
\* not production the instance type is one class lower where a lower class
\* exists and cost_optimized is True; for production the profile is
\* unchanged with cost_optimized False; a further call with the same env
\* returns the same profile.
C23_EnvironmentConfig ==
    (script = "advanced" /\ Has(locals, "env_config")) =>
        LET env == locals.environment
            got == locals.env_config
            base == ProfileOf(env)
        IN /\ \A k \in DOMAIN base \ {"instance_type"} : got[k] = base[k]
           /\ DOMAIN got = DOMAIN base \cup {"cost_optimized"}
           /\ IF env = "production"
              THEN got.instance_type = base.instance_type /\ ~got.cost_optimized
              ELSE locals.cost_optimization =>
                      /\ got.instance_type = OneClassLower(base.instance_type)
                      /\ got.cost_optimized
           /\ get_environment_config(env, locals.cost_optimization) = got

C23_Witness ==
    /\ script = "advanced" /\ Has(locals, "env_config")
    /\ locals.environment = "staging"
    /\ locals.cost_optimization
    /\ locals.env_config.instance_type = "t3.micro"

\* C24: in advanced_demo.py, with k declared subnets and N instances, a run
\* that went through the instance loop has declared, for every i below N, an
\* instance number i+1 in subnet (i mod k) whose AZ tag is the zone of that
\* subnet, and exports in instance_details the zone and CIDR of that subnet.
C24_InstancesAcrossSubnets ==
    (script = "advanced" /\ Finished /\ Has(locals, "instances")) =>
        LET k == Len(locals.subnets)
        IN /\ \A i \in 0..(locals.instance_count - 1) :
                 \E j \in Declared("Instance") :
                    /\ resources[j].tags.InstanceNumber = Str(i + 1)
                    /\ resources[j].refs.subnet_id = locals.subnets[(i % k) + 1]
                    /\ resources[j].tags.AZ = locals.selected_azs[(i % k) + 1]
           /\ Has(exports, "instance_details")
           /\ \A i \in 0..(locals.instance_count - 1) :
                 /\ exports.instance_details[i + 1].availability_zone =
                       locals.selected_azs[(i % k) + 1]
                 /\ exports.instance_details[i + 1].subnet_cidr =
                       SubnetCidrAdv(i % k)

\* the declared resources of a type whose Type tag is t
TaggedType(type, t) == {i \in Declared(type) : resources[i].tags.Type = t}

\* C25: modularity/__main__.py declares, for every stack name, exactly one
\* VPC, one gateway, one public and one private subnet and two security
\* groups, then 1 web server and no database server for dev and for an
\* unrecognised stack name, 2 web servers and 1 database server (in the
\* private subnet) for staging, 3 and 1 for prod; the exported server_count
\* equals the number of web servers declared.
C25_StackDispatch ==
    (script = "modularity" /\ pc = "done") =>
        LET web == TaggedType("Instance", "WebServer")
            db == TaggedType("Instance", "Database")
            expected == IF stack_name = "staging" THEN <<2, 1>>
                        ELSE IF stack_name = "prod" THEN <<3, 1>> ELSE <<1, 0>>
        IN /\ Cardinality(Declared("Vpc")) = 1
           /\ Cardinality(Declared("InternetGateway")) = 1
           /\ Cardinality(TaggedType("Subnet", "Public")) = 1
           /\ Cardinality(TaggedType("Subnet", "Private")) = 1
           /\ Cardinality(Declared("Subnet")) = 2
           /\ Cardinality(Declared("SecurityGroup")) = 2
           /\ Cardinality(web) = expected[1]
           /\ Cardinality(db) = expected[2]
           /\ Declared("Instance") = web \cup db
           /\ \A i \in db :
                 \E j \in TaggedType("Subnet", "Private") :
                    resources[i].refs.subnet_id = resources[j].name
           /\ exports.server_count = Cardinality(web)

C25_Witness ==
    /\ script = "modularity" /\ pc = "done"
    /\ stack_name = "prod"
    /\ exports.server_count = 3
    /\ Cardinality(Declared("Instance")) = 4

\* C26: the rule-count metadata equals the number of ingress rules attached
\* to the security group declared in the same run: the RuleCount tag and the
\* security_group_rules export in advanced_demo.py, the RulesCount tag and
\* the security_rules_count export in 05_preview_update_demo.py.
C26_RuleCountMetadata ==
    \A i \in Declared("SecurityGroup") :
        LET n == Len(resources[i].ingress)
        IN /\ script = "preview05" =>
                 /\ resources[i].tags.RulesCount = Str(n)
                 /\ Has(exports, "deployment_info") =>
                       exports.deployment_info.security_rules_count = n
           /\ script = "advanced" =>
                 /\ resources[i].tags.RuleCount = Str(n)
                 /\ Has(exports, "advanced_deployment_summary") =>
                       exports.advanced_deployment_summary.infrastructure_stats
                              .security_group_rules = n

C26_Witness ==
    /\ script = "preview05" /\ pc = "done"
    /\ Len(SgIngress(resources)) = 3
    /\ exports.deployment_info.security_rules_count = 3
    /\ resources[CHOOSE i \in Declared("SecurityGroup") : TRUE].tags.RulesCount = Str(3)

\* C27: the resource total a run exports equals the number of resources the
\* run declares: resources_managed in 04_state_demo.py, total_resources_created
\* in advanced_demo.py and in demo_components.py (where the seven resources
\* inside each component are counted, not the component itself).
C27_ResourceTotals ==
    /\ (script = "state04" /\ Has(exports, "state_info")) =>
          exports.state_info.resources_managed = Len(resources)
    /\ (script = "advanced" /\ Has(exports, "advanced_deployment_summary")) =>
          exports.advanced_deployment_summary.infrastructure_stats
                 .total_resources_created = Len(resources)
    /\ (script = "demo_components" /\ Has(exports, "deployment_summary")) =>
          exports.deployment_summary.total_resources_created =
             Cardinality({i \in 1..Len(resources) :
                             resources[i].type # "custom:WebServer"})

\* C28: in demo_components.py the deferred ssh_command callback registered
\* for environment e reads the key_name of e's own configuration entry,
\* whenever it runs relative to the rest of the script: what it reads does
\* not depend on what the module variable config is bound to by then, and it
\* never fails because config is no longer a mapping.
C28_CallbackReadsOwnEntry ==
    (script = "demo_components" /\ Has(locals, "callbacks")) =>
        \A e \in DOMAIN locals.callbacks :
            /\ locals.callbacks[e].ok
            /\ locals.callbacks[e].entry = e
            /\ locals.callbacks[e].key_name = environments[e].key_name

\* C29: in 05_preview_update_demo.py, for every deployment_version, the
\* exported demo_access.ssh_command is a usable ssh command (a deferred
\* transform of the instance's public IP) if and only if the security group
\* declared in the same run has the port-22 ingress rule; otherwise it is
\* the fixed "SSH not available" text.
C29_SshCommandMatchesRule ==
    (script = "preview05" /\ pc = "done") =>
        LET ingress == SgIngress(resources)
            has22 == \E k \in 1..Len(ingress) :
                        ingress[k].from_port <= 22 /\ 22 <= ingress[k].to_port
            ssh == exports.demo_access.ssh_command
        IN IF has22
           THEN /\ ssh.deferred
                /\ ssh.transform = "ssh-command"
                /\ ssh.of = Attr("preview-update-instance", "public_ip")
           ELSE /\ ~ssh.deferred
                /\ ssh.text = "SSH not available in v1.0"

C29_Witness ==
    /\ script = "preview05" /\ pc = "done"
    /\ FloatGE(locals.deployment_version, 2) /\ ~FloatGE(locals.deployment_version, 3)
    /\ Len(SgIngress(resources)) = 2
    /\ exports.demo_access.ssh_command.deferred

\* C30: within a single run no two resources of the same type are declared
\* with the same logical name, for every stack name, instance count and
\* number of availability zones.
C30_DistinctNames ==
    \A i, j \in 1..Len(resources) :
        (i < j /\ resources[i].type = resources[j].type) =>
            resources[i].name # resources[j].name

C30_Witness ==
    /\ script = "compute" /\ pc = "done"
    /\ Cardinality(Declared("Instance")) = 3
    /\ Len(locals.subnet_ids) = 1

-----------------------------------------------------------------------------

Init ==
    /\ (Init01 \/ Init02 \/ Init03 \/ Init05 \/ InitAdv \/ InitComponent \/ InitDC
        \/ InitPM \/ InitMod \/ InitCompute \/ InitWS \/ Init04)
    /\ sdk \in Sdks
    /\ prev = NoRun
    /\ locals = EmptyMap
    /\ resources = <<>>
    /\ exports = EmptyMap
    /\ error = NoError

Next ==
    \/ Next01 \/ Next03 \/ Next05 \/ NextAdv
    \/ DeclareVpc02 \/ DeclareSubnet02 \/ DeclareRest02
    \/ CallComponent
    \/ CreateServerDC \/ CallbackDC \/ ExportEnvironmentsDC \/ SummaryDC \/ ReportDC
    \/ DeclarePM \/ ExportPM \/ DemoInfoPM
    \/ NetworkMod \/ SingleServerMod \/ MultipleInstancesMod \/ DatabaseMod
    \/ CallMultiple
    \/ NetworkWS \/ InstanceWS
    \/ Declare04 \/ Export04
    \/ NextRerun

Spec == Init /\ [][Next]_vars

====
